---- MODULE Spec2Model ----
(***************************************************************************)
(* State-machine model of the zima resampling iterators (Jackknife,        *)
(* Bootstrap, Shuffle, Flipper, Subsample) and of the empirical CDF's      *)
(* stochastic-dominance comparison.                                        *)
(*                                                                         *)
(* Spec: one iterator, built by re() on a sample; one action per call of   *)
(* Iterator::next.  The values of a sample are IEEE bit patterns of the    *)
(* reduced width FloatBits (sign bit on top).  The RNG's draws are         *)
(* unconstrained inputs of each call.                                      *)
(* SpecCdf: two ECDFs are built from float slices and compared, and a      *)
(* quantile is taken.  SpecCi: Interval::is_valid.  SpecSb: one call of    *)
(* StudentizedBootstrap::compute.  SpecTest: one call of a permutation     *)
(* test.  SpecStat: one call of a moment estimator, SE or Studentized.     *)
(* SpecRe: two runs over one seeded resampler.                             *)
(***************************************************************************)
EXTENDS Integers, Sequences, FiniteSets, TLC

VARIABLES
    scheme,          \* which iterator was built by re()
    data,            \* the borrowed input slice
    buffer,          \* the iterator's Vec: [cap, elems]
    omit_idx,        \* JackknifeIter.omit_idx
    bit_reservoir,   \* FlipperIter.bit_reservoir: the set of bit positions that are 1
    bits_consumed,   \* FlipperIter.bits_consumed
    policy,          \* Subsample.policy
    mode,            \* SubsampleIter.mode
    subsample_size,  \* SubsampleIter.subsample_size
    ret,             \* what the last call of next() returned
    pulls,           \* number of calls of next() so far
    yields,          \* number of calls that returned Some
    self_sorted,     \* EmpiricalCDF.sorted of the left operand
    other_sorted,    \* EmpiricalCDF.sorted of the right operand
    cmp,             \* result of self.partial_cmp(other)
    cdf_pc,          \* position of the ECDF scenario
    quantile_p,      \* Quantile.p
    quantile_ret,    \* outcome of Quantile::compute on the left operand
    interval,        \* an Interval value
    valid,           \* what Interval::is_valid returned for it
    samples,         \* StudentizedBootstrap.samples
    confidence,      \* StudentizedBootstrap.confidence
    theta_hat,       \* statistic of the original sample
    se_theta_hat,    \* its standard error
    theta_star,      \* statistic of the outer resample drawn last
    se_theta_star,   \* its standard error
    t_star,          \* the pivots collected so far
    taken,           \* number of outer resamples drawn so far
    sb_ret,          \* outcome of StudentizedBootstrap::compute
    sb_pc,           \* position inside StudentizedBootstrap::compute
    test_kind,       \* which permutation test runs: MeanTest or VarianceTest
    test_data,       \* the data given to its compute
    null_value,      \* MeanTest.null_mean or VarianceTest.null_variance
    n_permutations,  \* its n_permutations
    observed,        \* observed_abs or observed_deviation
    permuted_stats,  \* permuted_stats or permuted_deviations collected so far
    extreme_count,   \* extreme_count
    test_ret,        \* the TestResult returned
    test_pc,         \* position inside the test's compute
    stat_kind,       \* which estimator is called
    estimator,       \* its fields
    stat_data,       \* the sample given to its compute
    stat_ret,        \* outcome of the call
    resampler,       \* a seeded resampler value: its kind and stored RNG
    re_data,         \* the sample it is applied to
    re_samples,      \* `samples` of the SE built on it
    re_iters,        \* the iterators returned by two calls of re()
    re_outs,         \* what each iterator has returned so far
    re_se            \* the results of two calls of SE::compute

iterVars == <<scheme, data, buffer, omit_idx, bit_reservoir, bits_consumed,
              policy, mode, subsample_size, ret, pulls, yields>>
cdfVars == <<self_sorted, other_sorted, cmp, cdf_pc, quantile_p, quantile_ret>>
ciVars == <<interval, valid>>
sbVars == <<samples, confidence, theta_hat, se_theta_hat, theta_star,
            se_theta_star, t_star, taken, sb_ret, sb_pc>>
testVars == <<test_kind, test_data, null_value, n_permutations, observed,
              permuted_stats, extreme_count, test_ret, test_pc>>
statVars == <<stat_kind, estimator, stat_data, stat_ret>>
reVars == <<resampler, re_data, re_samples, re_iters, re_outs, re_se>>
nonIterVars == <<cdfVars, ciVars, sbVars, testVars, statVars, reVars>>
nonCdfVars == <<iterVars, ciVars, sbVars, testVars, statVars, reVars>>
nonCiVars == <<iterVars, cdfVars, sbVars, testVars, statVars, reVars>>
nonSbVars == <<iterVars, cdfVars, ciVars, testVars, statVars, reVars>>
\* a permutation test drives a Flipper iterator of its own
nonTestVars == <<cdfVars, ciVars, sbVars, statVars, reVars>>
nonStatVars == <<iterVars, cdfVars, ciVars, sbVars, testVars, reVars>>
nonReVars == <<iterVars, cdfVars, ciVars, sbVars, testVars, statVars>>
vars == <<iterVars, cdfVars, ciVars, sbVars, testVars, statVars, reVars>>

----------------------------------------------------------------------------
(* Bounds of the model *)

\* longest sample of distinct values given to Jackknife, Bootstrap and Shuffle
MaxN == 3
\* longest sample given to Flipper (beyond 8, so that the unrolled loop runs)
FlipMaxN == 9
\* longest sample given to Subsample (from 8 on the reservoir branch runs)
SubMaxN == 8
\* number of calls of next() on a Jackknife or Flipper iterator
MaxPulls == 9
\* number of calls of next() on a Bootstrap, Shuffle or Subsample iterator
\* (these return to the same fields after every call)
RngPulls == 2
\* width of a float's bit pattern in the model
FloatBits == 8
\* largest size returned by a fixed-size policy
MaxFixed == 2
\* longest slice an ECDF is built from
CdfMaxLen == 3
\* the probabilities of a quantile are the multiples of 2^-PBits
PBits == 3
\* largest number of outer resamples of a studentized bootstrap
SbMaxSamples == 3
\* largest n_permutations of a permutation test
MaxPermutations == 3
\* a square root is rounded down to a multiple of 1/SqrtScale
SqrtScale == 16
\* the states of the seeded RNG are 0..RngMod-1
RngMod == 8
\* largest `samples` of a resampling SE
SeMaxSamples == 3
\* pulls observed from each of the two iterators of one resampler
RePulls == 2
\* largest ddof handed to Variance::new
MaxDdof == 3

----------------------------------------------------------------------------
(* Arithmetic and bit helpers *)

Min(a, b) == IF a <= b THEN a ELSE b

RECURSIVE Pow2(_)
Pow2(k) == IF k <= 0 THEN 1 ELSE 2 * Pow2(k - 1)

\* 0x8000_0000 / 0x8000_0000_0000_0000 at the model's width
SignMask == Pow2(FloatBits - 1)

RECURSIVE BitAnd(_, _)
BitAnd(a, b) ==
    IF a = 0 \/ b = 0 THEN 0
    ELSE (a % 2) * (b % 2) + 2 * BitAnd(a \div 2, b \div 2)

RECURSIVE BitXor(_, _)
BitXor(a, b) ==
    IF a = 0 THEN b
    ELSE IF b = 0 THEN a
    ELSE (((a % 2) + (b % 2)) % 2) + 2 * BitXor(a \div 2, b \div 2)

\* uN::wrapping_neg
WrappingNeg(x) == (Pow2(FloatBits) - x) % Pow2(FloatBits)

\* floor(sqrt(m)): (n as f64).sqrt() as usize
RECURSIVE ISqrtFrom(_, _)
ISqrtFrom(m, r) == IF (r + 1) * (r + 1) > m THEN r ELSE ISqrtFrom(m, r + 1)
ISqrt(m) == ISqrtFrom(m, 0)

----------------------------------------------------------------------------
(* Vec<T>: capacity and elements.  A slot exposed by set_len and not yet   *)
(* written holds Uninit.                                                   *)

Uninit == 0 - 1

VecNew == [cap |-> 0, elems |-> <<>>]
WithCapacity(c) == [cap |-> c, elems |-> <<>>]
Clear(v) == [v EXCEPT !.elems = <<>>]
\* mutant: no capacity is reserved
ReserveExact_Never(v, additional) == v

\* Vec::reserve_exact(additional): capacity >= len + additional
ReserveExact(v, additional) ==
    IF v.cap >= Len(v.elems) + additional THEN v
    ELSE [v EXCEPT !.cap = Len(v.elems) + additional]
\* Vec::set_len(new_len): truncates, or exposes uninitialized slots
SetLen(v, new_len) ==
    [v EXCEPT !.elems = [i \in 1..new_len |->
                            IF i <= Len(v.elems) THEN v.elems[i] ELSE Uninit]]
\* ptr::copy_nonoverlapping(src + s, dst + d, count), offsets counted from 0
CopyNonoverlapping(src, s, v, d, count) ==
    [v EXCEPT !.elems = [i \in 1..Len(v.elems) |->
                            IF d < i /\ i <= d + count THEN src[s + (i - d)]
                            ELSE v.elems[i]]]
\* *ptr.add(i) = x, i counted from 0
WriteAt(elems, i, x) == [elems EXCEPT ![i + 1] = x]
\* mutant: the swap without tmp
SwapAt_NoTmp(elems, i, j) ==
    LET e1 == WriteAt(elems, i, elems[j + 1])
    IN  WriteAt(e1, j, e1[i + 1])

\* swap of slots i and j through tmp, counted from 0
SwapAt(elems, i, j) ==
    LET tmp == elems[i + 1]
        e1 == WriteAt(elems, i, elems[j + 1])
    IN  WriteAt(e1, j, tmp)

None == [kind |-> "None", data |-> <<>>]
Some(s) == [kind |-> "Some", data |-> s]
NotPulled == [kind |-> "NotPulled", data |-> <<>>]

----------------------------------------------------------------------------
(* Inputs *)

Schemes == {"Jackknife", "Bootstrap", "Shuffle", "Flipper", "Subsample"}

\* a sample of k pairwise distinct patterns, every third one negative
Canon(k) == [i \in 1..k |-> IF i % 3 = 0 THEN SignMask + i ELSE i]

\* samples with repeated values, with +0, -0 and an all-ones (NaN) payload
ExtraSamples ==
    { <<1, 1>>, <<2, 1, 2>>, <<0, SignMask, SignMask - 1, 2 * SignMask - 1>> }

MaxLenOf(s) ==
    IF s = "Flipper" THEN FlipMaxN
    ELSE IF s = "Subsample" THEN SubMaxN
    ELSE MaxN

Samples(s) == { Canon(k) : k \in 0..MaxLenOf(s) } \cup ExtraSamples

n == Len(data)

PullCap == IF scheme \in {"Jackknife", "Flipper"} THEN MaxPulls ELSE RngPulls

\* what every call of next() does to the harness counters
Returned(r) ==
    /\ ret' = r
    /\ pulls' = pulls + 1
    /\ yields' = IF r.kind = "Some" THEN yields + 1 ELSE yields

----------------------------------------------------------------------------
(* Jackknife *)

\* JackknifeIter::new
JackknifeNew(d) == WithCapacity(IF Len(d) >= 1 THEN Len(d) - 1 ELSE 0)

\* mutant: the guard lets one more pull through
JackknifeDone_Late(idx, len) == idx > len

\* the guard of JackknifeIter::next
JackknifeDone(idx, len) == idx >= len

\* mutant: the omitted index is not advanced
JackknifeAdvance_Stuck(idx) == idx

\* self.omit_idx += 1
JackknifeAdvance(idx) == idx + 1

\* mutant: the suffix is copied from omit instead of omit + 1
JackknifeCopy_KeepOmitted(d, buf, omit) ==
    LET len == Len(d)
        b1 == IF omit > 0 THEN CopyNonoverlapping(d, 0, buf, 0, omit) ELSE buf
        b2 == IF omit < len - 1
              THEN CopyNonoverlapping(d, omit, b1, omit, len - omit - 1)
              ELSE b1
    IN  b2

\* the two copies of JackknifeIter::next into the buffer of length new_len
JackknifeCopy(d, buf, omit) ==
    LET len == Len(d)
        b1 == IF omit > 0 THEN CopyNonoverlapping(d, 0, buf, 0, omit) ELSE buf
        b2 == IF omit < len - 1
              THEN CopyNonoverlapping(d, omit + 1, b1, omit, len - omit - 1)
              ELSE b1
    IN  b2

JackknifeNext ==
    /\ scheme = "Jackknife"
    /\ pulls < PullCap
    /\ IF JackknifeDone(omit_idx, n)
       THEN /\ Returned(None)
            /\ UNCHANGED <<omit_idx, buffer>>
       ELSE LET omit == omit_idx
                new_len == n - 1
                b0 == IF buffer.cap < new_len
                      THEN ReserveExact(buffer, new_len) ELSE buffer
                b1 == SetLen(b0, new_len)
                b2 == JackknifeCopy(data, b1, omit)
            IN  /\ omit_idx' = JackknifeAdvance(omit)
                /\ buffer' = WithCapacity(new_len)
                /\ Returned(Some(b2.elems))
    /\ UNCHANGED <<scheme, data, bit_reservoir, bits_consumed, policy, mode,
                   subsample_size, nonIterVars>>

----------------------------------------------------------------------------
(* Bootstrap *)

\* the draws of one call: idx[i] = rng.gen_range(0..n) for i in 0..n
BootstrapDraws(len) == [1..len -> 0..(len - 1)]

\* mutant: the loop starts at slot 1 and leaves slot 0 as set_len exposed it
BootstrapFill_SkipFirst(d, buf, idx) ==
    [buf EXCEPT !.elems = [i \in 1..Len(buf.elems) |->
                              IF i = 1 THEN buf.elems[i] ELSE d[idx[i] + 1]]]

\* the loop of BootstrapIter::next
BootstrapFill(d, buf, idx) ==
    [buf EXCEPT !.elems = [i \in 1..Len(buf.elems) |-> d[idx[i] + 1]]]

BootstrapNext ==
    /\ scheme = "Bootstrap"
    /\ pulls < PullCap
    /\ \E idx \in BootstrapDraws(n) :
         LET b0 == ReserveExact(Clear(buffer), n)
             b1 == SetLen(b0, n)
             b2 == BootstrapFill(data, b1, idx)
         IN  /\ buffer' = VecNew
             /\ Returned(Some(b2.elems))
    /\ UNCHANGED <<scheme, data, omit_idx, bit_reservoir, bits_consumed, policy,
                   mode, subsample_size, nonIterVars>>

----------------------------------------------------------------------------
(* Shuffle *)

\* the draws of one call: J[i] = rng.gen_range(0..=i) for i in (1..n).rev()
ShuffleDraws(len) ==
    { J \in [1..(len - 1) -> 0..(len - 1)] : \A i \in 1..(len - 1) : J[i] <= i }

\* mutant: the loop stops before index 1
RECURSIVE FisherYates_StopAtTwo(_, _, _)
FisherYates_StopAtTwo(elems, i, J) ==
    IF i < 2 THEN elems
    ELSE FisherYates_StopAtTwo(SwapAt(elems, i, J[i]), i - 1, J)

\* the Fisher-Yates loop from index i down to 1
RECURSIVE FisherYates(_, _, _)
FisherYates(elems, i, J) ==
    IF i < 1 THEN elems
    ELSE FisherYates(SwapAt(elems, i, J[i]), i - 1, J)

ShuffleNext ==
    /\ scheme = "Shuffle"
    /\ pulls < PullCap
    /\ \E J \in ShuffleDraws(n) :
         LET b0 == IF buffer.cap < n THEN ReserveExact(buffer, n) ELSE buffer
             b1 == SetLen(b0, n)
             b2 == CopyNonoverlapping(data, 0, b1, 0, n)
             out == IF n > 1 THEN FisherYates(b2.elems, n - 1, J) ELSE b2.elems
         IN  /\ buffer' = VecNew
             /\ Returned(Some(out))
    /\ UNCHANGED <<scheme, data, omit_idx, bit_reservoir, bits_consumed, policy,
                   mode, subsample_size, nonIterVars>>

----------------------------------------------------------------------------
(* Flipper (sign flip) *)

\* number of bits of the reservoir word (u64)
WordBits == 64

\* the 64-bit words the RNG may return, as sets of the positions that are 1
Words ==
    { {}, 0..(WordBits - 1),
      { p \in 0..(WordBits - 1) : p % 2 = 0 },
      { p \in 0..(WordBits - 1) : p % 3 = 1 } }

\* w >> s
Shr(w, s) == { p - (s % WordBits) : p \in { q \in w : q >= s % WordBits } }
\* (w & (1u64 << t)) != 0
TestBit(w, t) == t \in w

\* mutant: the mask is not restricted to the sign bit
SignBitFlip_AllBits(value, control) ==
    BitXor(value, WrappingNeg(IF control THEN 1 ELSE 0))

\* SignBitFlip::flip
SignBitFlip(value, control) ==
    LET mask == BitAnd(WrappingNeg(IF control THEN 1 ELSE 0), SignMask)
    IN  BitXor(value, mask)

\* at most one refill per round of the unrolled loop and one in the remainder
TapeLen(len) == (len \div 8) + 1

\* the 8-way unrolled loop; st = [elems, res, bc, i, used], ws = the words
\* rng.next_u64() returns, in order
RECURSIVE FlipUnrolled(_, _)
FlipUnrolled(st, ws) ==
    IF ~(st.i + 7 < Len(st.elems)) THEN st
    ELSE LET refill == st.bc > 56
             res == IF refill THEN ws[st.used + 1] ELSE st.res
             bc == IF refill THEN 0 ELSE st.bc
             bits == Shr(res, bc)
             elems == [p \in 1..Len(st.elems) |->
                          IF st.i < p /\ p <= st.i + 8
                          THEN SignBitFlip(st.elems[p], TestBit(bits, p - 1 - st.i))
                          ELSE st.elems[p]]
         IN  FlipUnrolled([elems |-> elems, res |-> res, bc |-> bc + 8,
                           i |-> st.i + 8,
                           used |-> IF refill THEN st.used + 1 ELSE st.used], ws)

\* the loop over the remaining 0..7 elements
RECURSIVE FlipRemainder(_, _)
FlipRemainder(st, ws) ==
    IF ~(st.i < Len(st.elems)) THEN st
    ELSE LET refill == st.bc >= WordBits
             res == IF refill THEN ws[st.used + 1] ELSE st.res
             bc == IF refill THEN 0 ELSE st.bc
             flip_bit == TestBit(Shr(res, bc), 0)
             elems == WriteAt(st.elems, st.i, SignBitFlip(st.elems[st.i + 1], flip_bit))
         IN  FlipRemainder([elems |-> elems, res |-> res, bc |-> bc + 1,
                            i |-> st.i + 1,
                            used |-> IF refill THEN st.used + 1 ELSE st.used], ws)

\* mutant: the 8-way loop waits until the word is used up
UnrolledRefill_Exhausted(bc) == bc >= WordBits

\* the refill guard of the 8-way loop
UnrolledRefill(bc) == bc > 56

\* mutant: the remainder loop refills one step late
RemainderRefill_Late(bc) == bc > WordBits

\* the refill guard of the remainder loop
RemainderRefill(bc) == bc >= WordBits

\* the reads of the reservoir made by the 8-way loop, one per element:
\* word counts the refills of this call (0 is the word held on entry), shift
\* is the amount of >>, bit the position of the word that decides the flip,
\* before and after are bits_consumed at the guard and after the step
RECURSIVE ReadsUnrolled(_, _)
ReadsUnrolled(st, len) ==
    IF ~(st.i + 7 < len) THEN st
    ELSE LET refill == UnrolledRefill(st.bc)
             bc == IF refill THEN 0 ELSE st.bc
             w == IF refill THEN st.word + 1 ELSE st.word
             round == [t \in 1..8 |->
                          [word |-> w, shift |-> bc, bit |-> bc + (t - 1),
                           refilled |-> refill /\ t = 1, before |-> st.bc,
                           after |-> bc + 8, unrolled |-> TRUE]]
         IN  ReadsUnrolled([bc |-> bc + 8, i |-> st.i + 8, word |-> w,
                            reads |-> st.reads \o round], len)

\* the reads made by the remainder loop
RECURSIVE ReadsRemainder(_, _)
ReadsRemainder(st, len) ==
    IF ~(st.i < len) THEN st
    ELSE LET refill == RemainderRefill(st.bc)
             bc == IF refill THEN 0 ELSE st.bc
             w == IF refill THEN st.word + 1 ELSE st.word
             read == [word |-> w, shift |-> bc, bit |-> bc, refilled |-> refill,
                      before |-> st.bc, after |-> bc + 1, unrolled |-> FALSE]
         IN  ReadsRemainder([bc |-> bc + 1, i |-> st.i + 1, word |-> w,
                             reads |-> Append(st.reads, read)], len)

\* the reads of one call of FlipperIter::next entered with bits_consumed = bc0
FlipReads(bc0, len) ==
    ReadsRemainder(ReadsUnrolled([bc |-> bc0, i |-> 0, word |-> 0, reads |-> <<>>], len),
                   len)

\* mutant: an empty sample ends the sequence
FlipperOnEmpty_Done == None

\* what FlipperIter::next returns when n == 0
FlipperOnEmpty == Some(<<>>)

\* FlipperIter::next, on the fields of the iterator
FlipperStep ==
    /\ scheme = "Flipper"
    /\ pulls < PullCap
    /\ IF n = 0
       THEN /\ Returned(FlipperOnEmpty)
            /\ UNCHANGED <<buffer, bit_reservoir, bits_consumed>>
       ELSE \E ws \in [1..TapeLen(n) -> Words] :
              LET b0 == IF buffer.cap < n THEN ReserveExact(buffer, n) ELSE buffer
                  b1 == SetLen(b0, n)
                  b2 == CopyNonoverlapping(data, 0, b1, 0, n)
                  s0 == [elems |-> b2.elems, res |-> bit_reservoir,
                         bc |-> bits_consumed, i |-> 0, used |-> 0]
                  s1 == FlipUnrolled(s0, ws)
                  s2 == FlipRemainder(s1, ws)
              IN  /\ bit_reservoir' = s2.res
                  /\ bits_consumed' = s2.bc
                  /\ buffer' = VecNew
                  /\ Returned(Some(s2.elems))
    /\ UNCHANGED <<scheme, data, omit_idx, policy, mode, subsample_size>>

FlipperNext == FlipperStep /\ UNCHANGED nonIterVars

----------------------------------------------------------------------------
(* Subsample *)

Modes == {"WithoutReplacement", "WithReplacement"}

\* Subsample::new (sqrt), fixed_size_policy(size), fixed_ratio_policy(1.0)
Policies ==
    {[kind |-> "sqrt", arg |-> 0], [kind |-> "ratio_one", arg |-> 0]}
        \cup { [kind |-> "fixed", arg |-> s] : s \in 0..MaxFixed }
NoPolicy == [kind |-> "none", arg |-> 0]

PolicyApply(p, len) ==
    IF p.kind = "sqrt" THEN ISqrt(len)
    ELSE IF p.kind = "ratio_one" THEN (IF len >= 1 THEN len ELSE 1)
    ELSE p.arg

\* Subsample::re: the size handed to SubsampleIter::new
SubsampleSize(p, len) == Min(PolicyApply(p, len), len)

\* sum of the second components of a set of pairs
RECURSIVE SumWays(_)
SumWays(R) ==
    IF R = {} THEN 0
    ELSE LET r == CHOOSE q \in R : TRUE IN r[2] + SumWays(R \ {r})

\* one step of the loops below on every buffer reached so far: runs holds
\* <<buffer, number of draw sequences that lead to it>>, and step[r][j] is the
\* buffer that the draw j = rng.gen_range(0..=i) makes of r's
Advance(runs, i, step) ==
    LET outs == { step[r][j] : r \in runs, j \in 0..i }
        into(o) == { r \in runs : \E j \in 0..i : step[r][j] = o }
        ways(o) == SumWays({ <<r[1], r[2] * Cardinality({ j \in 0..i : step[r][j] = o })>> :
                                r \in into(o) })
    IN  { <<o, ways(o)>> : o \in outs }

\* the body of the reservoir loop at index i with draw j
ReservoirStep(e, d, k, i, j) == IF j < k THEN WriteAt(e, j, d[i + 1]) ELSE e

\* phase 2 of the reservoir branch: while i < n
RECURSIVE ReservoirRuns(_, _, _, _)
ReservoirRuns(runs, d, k, i) ==
    IF ~(i < Len(d)) THEN runs
    ELSE LET step == [r \in runs |-> [j \in 0..i |-> ReservoirStep(r[1], d, k, i, j)]]
         IN  ReservoirRuns(Advance(runs, i, step), d, k, i + 1)

\* the loop of the partial Fisher-Yates branch: for i in (n - k..n).rev()
RECURSIVE PartialShuffleRuns(_, _, _)
PartialShuffleRuns(runs, lo, i) ==
    IF i < lo THEN runs
    ELSE LET step == [r \in runs |-> [j \in 0..i |-> SwapAt(r[1], i, j)]]
         IN  PartialShuffleRuns(Advance(runs, i, step), lo, i - 1)

\* the branch taken by sample_without_replacement
UseReservoir(k, len) == k < len \div 4

\* mutant: the buffer is not truncated
PartialShuffleLen_Full(k, len) == len

\* the length the partial Fisher-Yates branch leaves the buffer with
PartialShuffleLen(k, len) == k

\* SubsampleIter::sample_without_replacement on data d with size k >= 1 and
\* the iterator's buffer buf, up
\* to the end of its loop: the buffers reached, each with its number of draw
\* sequences
WithoutReplacementRuns(buf, d, k) ==
    LET len == Len(d)
    IN  IF UseReservoir(k, len)
        THEN LET b0 == ReserveExact(Clear(buf), k)
                 b1 == SetLen(b0, k)
                 b2 == CopyNonoverlapping(d, 0, b1, 0, Min(k, len))
             IN  ReservoirRuns({<<b2.elems, 1>>}, d, k, k)
        ELSE LET b0 == IF buf.cap < len THEN ReserveExact(buf, len) ELSE buf
                 b1 == SetLen(b0, len)
                 b2 == CopyNonoverlapping(d, 0, b1, 0, len)
             IN  PartialShuffleRuns({<<b2.elems, 1>>}, len - k, len - 1)

\* what sample_without_replacement yields from the buffer e its loop ended with
WithoutReplacementYield(e, k, len) ==
    IF UseReservoir(k, len) THEN e
    ELSE SetLen([cap |-> len, elems |-> e], PartialShuffleLen(k, len)).elems

\* the draws of sample_with_replacement: idx[i] = rng.gen_range(0..n)
WithReplacementDraws(k, len) == [1..k -> 0..(len - 1)]

\* SubsampleIter::sample_with_replacement: the 4-way unrolled loop fills
\* slots 0..u-1, the remainder loop slots u..k-1
WithReplacementFill(buf, d, k, idx) ==
    LET b0 == ReserveExact(Clear(buf), k)
        b1 == SetLen(b0, k)
        u == 4 * (k \div 4)
    IN  [i \in 1..Len(b1.elems) |->
            IF i <= u THEN d[idx[i] + 1]
            ELSE IF i <= k THEN d[idx[i] + 1]
            ELSE b1.elems[i]]

SubsampleNext ==
    /\ scheme = "Subsample"
    /\ pulls < PullCap
    /\ IF n = 0 \/ subsample_size = 0
       THEN Returned(Some(<<>>))
       ELSE IF mode = "WithoutReplacement"
       THEN \E r \in WithoutReplacementRuns(buffer, data, subsample_size) :
              Returned(Some(WithoutReplacementYield(r[1], subsample_size, n)))
       ELSE \E idx \in WithReplacementDraws(subsample_size, n) :
              Returned(Some(WithReplacementFill(buffer, data, subsample_size, idx)))
    /\ buffer' = IF n = 0 \/ subsample_size = 0 THEN buffer ELSE VecNew
    /\ UNCHANGED <<scheme, data, omit_idx, bit_reservoir, bits_consumed, policy,
                   mode, subsample_size, nonIterVars>>

----------------------------------------------------------------------------
(* The unchecked operations of one call of next(): set_len against the    *)
(* capacity, raw reads against the length of what is read, raw writes     *)
(* against the length the buffer was just given.  Every value a draw can  *)
(* take is included.                                                      *)

SetLenOp(new_len, cap) == [kind |-> "set_len", at |-> new_len, limit |-> cap]
ReadOp(idx, len) == [kind |-> "read", at |-> idx, limit |-> len]
WriteOp(idx, len) == [kind |-> "write", at |-> idx, limit |-> len]

\* ptr::copy_nonoverlapping(src + s, dst + d, count)
CopyOps(s, src_len, d, dst_len, count) ==
    { ReadOp(s + t, src_len) : t \in 0..(count - 1) }
        \cup { WriteOp(d + t, dst_len) : t \in 0..(count - 1) }

\* the swap of slots i and j of a buffer of length len
SwapOps(i, j, len) ==
    { ReadOp(i, len), ReadOp(j, len), WriteOp(i, len), WriteOp(j, len) }

\* JackknifeIter::next
JackknifeOps(buf, len, omit) ==
    IF JackknifeDone(omit, len) THEN {}
    ELSE LET new_len == len - 1
             b0 == IF buf.cap < new_len THEN ReserveExact(buf, new_len) ELSE buf
         IN  {SetLenOp(new_len, b0.cap)}
                 \cup (IF omit > 0 THEN CopyOps(0, len, 0, new_len, omit) ELSE {})
                 \cup (IF omit < len - 1
                       THEN CopyOps(omit + 1, len, omit, new_len, len - omit - 1)
                       ELSE {})

\* BootstrapIter::next
BootstrapOps(buf, len) ==
    LET b0 == ReserveExact(Clear(buf), len)
    IN  {SetLenOp(len, b0.cap)}
            \cup { WriteOp(i, len) : i \in 0..(len - 1) }
            \cup { ReadOp(idx, len) : idx \in 0..(len - 1) }

\* ShuffleIter::next
ShuffleOps(buf, len) ==
    LET b0 == IF buf.cap < len THEN ReserveExact(buf, len) ELSE buf
    IN  {SetLenOp(len, b0.cap)}
            \cup CopyOps(0, len, 0, len, len)
            \cup (IF len > 1
                  THEN UNION { UNION { SwapOps(i, j, len) : j \in 0..i } : i \in 1..(len - 1) }
                  ELSE {})

\* FlipperIter::next: the 8-way loop touches i .. i+7 while i + 7 < n, the
\* remainder loop i while i < n
FlipperOps(buf, len) ==
    IF len = 0 THEN {}
    ELSE LET b0 == IF buf.cap < len THEN ReserveExact(buf, len) ELSE buf
             starts == { i \in 0..len : i % 8 = 0 /\ i + 7 < len }
             rest == { i \in 0..(len - 1) : i >= 8 * Cardinality(starts) }
         IN  {SetLenOp(len, b0.cap)}
                 \cup CopyOps(0, len, 0, len, len)
                 \cup UNION { { ReadOp(i + t, len), WriteOp(i + t, len) } :
                                i \in starts, t \in 0..7 }
                 \cup UNION { { ReadOp(i, len), WriteOp(i, len) } : i \in rest }

\* SubsampleIter::next
SubsampleOps(buf, len, k, m) ==
    IF len = 0 \/ k = 0 THEN {}
    ELSE IF m = "WithReplacement"
    THEN LET b0 == ReserveExact(Clear(buf), k)
         IN  {SetLenOp(k, b0.cap)}
                 \cup { WriteOp(i, k) : i \in 0..(k - 1) }
                 \cup { ReadOp(idx, len) : idx \in 0..(len - 1) }
    ELSE IF UseReservoir(k, len)
    THEN LET b0 == ReserveExact(Clear(buf), k)
         IN  {SetLenOp(k, b0.cap)}
                 \cup CopyOps(0, len, 0, k, Min(k, len))
                 \cup UNION { { WriteOp(j, k), ReadOp(i, len) } :
                                i \in k..(len - 1), j \in 0..(k - 1) }
    ELSE LET b0 == IF buf.cap < len THEN ReserveExact(buf, len) ELSE buf
         IN  {SetLenOp(len, b0.cap), SetLenOp(PartialShuffleLen(k, len), b0.cap)}
                 \cup CopyOps(0, len, 0, len, len)
                 \cup UNION { UNION { SwapOps(i, j, len) : j \in 0..i } :
                                i \in (len - k)..(len - 1) }

----------------------------------------------------------------------------
(* The iterators' specification *)

\* the policies tried on sample d (the whole-sample policy on the short ones)
PoliciesFor(d) ==
    { p \in Policies : p.kind = "ratio_one" => d \in ExtraSamples }

IterInit ==
    /\ scheme \in Schemes
    /\ data \in Samples(scheme)
    /\ policy \in IF scheme = "Subsample" THEN PoliciesFor(data) ELSE {NoPolicy}
    /\ mode \in IF scheme = "Subsample" THEN Modes ELSE {"none"}
    /\ subsample_size =
         IF scheme = "Subsample" THEN SubsampleSize(policy, Len(data)) ELSE 0
    /\ buffer = IF scheme = "Jackknife" THEN JackknifeNew(data)
                ELSE IF scheme = "Subsample" THEN WithCapacity(subsample_size)
                ELSE WithCapacity(Len(data))
    /\ omit_idx = 0
    /\ bit_reservoir = {}
    /\ bits_consumed = 64
    /\ ret = NotPulled
    /\ pulls = 0
    /\ yields = 0


Next ==
    \/ JackknifeNext
    \/ BootstrapNext
    \/ ShuffleNext
    \/ FlipperNext
    \/ SubsampleNext


----------------------------------------------------------------------------
(* Float values.  A float is a fraction num/den in lowest terms with       *)
(* den > 0, or one of 1/0 (+inf), -1/0 (-inf) and 0/0 (NaN).  Arithmetic  *)
(* is exact: rounding and the sign of zero are not represented.           *)

Abs(i) == IF i < 0 THEN 0 - i ELSE i
Sign(i) == IF i < 0 THEN 0 - 1 ELSE IF i > 0 THEN 1 ELSE 0

RECURSIVE Gcd(_, _)
Gcd(a, b) == IF b = 0 THEN a ELSE Gcd(b, a % b)

Norm(num, den) ==
    IF den = 0 THEN [num |-> Sign(num), den |-> 0]
    ELSE LET g == Gcd(Abs(num), Abs(den))
         IN  [num |-> (Sign(den) * num) \div g, den |-> Abs(den) \div g]

\* the float of an integer (T::from_usize, literals)
F(i) == [num |-> i, den |-> 1]

NaN == [num |-> 0, den |-> 0]
Infinity == [num |-> 1, den |-> 0]

is_nan(x) == x = NaN
is_zero(x) == x = F(0)

\* f64::partial_cmp
FloatPartialCmp(a, b) ==
    IF is_nan(a) \/ is_nan(b) THEN "None"
    ELSE LET l == IF a.den = 0 /\ b.den = 0 THEN a.num ELSE a.num * b.den
             r == IF a.den = 0 /\ b.den = 0 THEN b.num ELSE b.num * a.den
         IN  IF l < r THEN "Less"
             ELSE IF l > r THEN "Greater"
             ELSE "Equal"

\* the comparison operators of floats: false when an operand is NaN
FLe(a, b) == FloatPartialCmp(a, b) \in {"Less", "Equal"}
FLt(a, b) == FloatPartialCmp(a, b) = "Less"
FGe(a, b) == FloatPartialCmp(a, b) \in {"Greater", "Equal"}
FGt(a, b) == FloatPartialCmp(a, b) = "Greater"

FNeg(a) == [num |-> 0 - a.num, den |-> a.den]
FAbs(a) == [num |-> Abs(a.num), den |-> a.den]

FAdd(a, b) ==
    IF is_nan(a) \/ is_nan(b) THEN NaN
    ELSE IF a.den = 0 /\ b.den = 0 THEN (IF a.num = b.num THEN a ELSE NaN)
    ELSE Norm(a.num * b.den + b.num * a.den, a.den * b.den)

FSub(a, b) == FAdd(a, FNeg(b))

FMul(a, b) ==
    IF is_nan(a) \/ is_nan(b) THEN NaN
    ELSE Norm(a.num * b.num, a.den * b.den)

\* f64::recip
FRecip(a) == IF is_nan(a) THEN NaN ELSE Norm(a.den, a.num)

FDiv(a, b) == FMul(a, FRecip(b))

----------------------------------------------------------------------------
(* Empirical CDF *)

\* .filter(|&x| !x.is_nan()).collect()
RECURSIVE FilterNaN(_)
FilterNaN(s) ==
    IF s = <<>> THEN <<>>
    ELSE IF is_nan(Head(s)) THEN FilterNaN(Tail(s))
    ELSE <<Head(s)>> \o FilterNaN(Tail(s))

\* insertion of x into a sorted sequence, after the elements not greater
RECURSIVE InsertSorted(_, _)
InsertSorted(s, x) ==
    IF s = <<>> THEN <<x>>
    ELSE IF FloatPartialCmp(Head(s), x) = "Greater" THEN <<x>> \o s
    ELSE <<Head(s)>> \o InsertSorted(Tail(s), x)

\* sort_by(|a, b| a.partial_cmp(b).expect(..)) on NaN-free values (stable)
RECURSIVE SortBy(_)
SortBy(s) ==
    IF s = <<>> THEN <<>>
    ELSE InsertSorted(SortBy(SubSeq(s, 1, Len(s) - 1)), s[Len(s)])

\* EmpiricalCDF::from_float_slice
FromFloatSlice(d) == SortBy(FilterNaN(d))

\* dedup_by(|a, b| a == b): drops an element equal to the one kept before it
RECURSIVE Dedup(_)
Dedup(s) ==
    IF Len(s) <= 1 THEN s
    ELSE LET rest == Dedup(Tail(s))
         IN  IF Head(s) = Head(rest) THEN rest ELSE <<Head(s)>> \o rest

\* slice::partition_point with the predicate of count_leq, by binary search
RECURSIVE PartitionPoint(_, _, _, _)
PartitionPoint(sorted, x, lo, hi) ==
    IF ~(lo < hi) THEN lo
    ELSE LET mid == lo + ((hi - lo) \div 2)
             ord == FloatPartialCmp(sorted[mid + 1], x)
             pred == ord # "None" /\ ord # "Greater"
         IN  IF pred THEN PartitionPoint(sorted, x, mid + 1, hi)
             ELSE PartitionPoint(sorted, x, lo, mid)

\* EmpiricalCDF::count_leq
count_leq(sorted, x) == PartitionPoint(sorted, x, 0, Len(sorted))

\* mutant: the cross products are compared the other way round
SelfLeOther_Swapped(k_self, n_self, k_other, n_other) ==
    k_other * n_self <= k_self * n_other

\* which side is taken for "self(x) <= other(x)" in the loop of partial_cmp
SelfLeOther(k_self, n_self, k_other, n_other) ==
    k_self * n_other <= k_other * n_self

\* mutant: the two flags are overwritten at every jump point
RECURSIVE DominanceLoop_Overwrite(_, _, _, _, _)
DominanceLoop_Overwrite(a, b, points, self_dominates, other_dominates) ==
    IF points = <<>>
    THEN IF self_dominates /\ other_dominates THEN "Equal"
         ELSE IF self_dominates THEN "Less"
         ELSE IF other_dominates THEN "Greater"
         ELSE "None"
    ELSE LET x == Head(points)
             k_self == count_leq(a, x)
             k_other == count_leq(b, x)
             sd == k_self * Len(b) <= k_other * Len(a)
             od == k_other * Len(a) <= k_self * Len(b)
         IN  IF ~sd /\ ~od THEN "None"
             ELSE DominanceLoop_Overwrite(a, b, Tail(points), sd, od)

\* the loop of partial_cmp over the jump points, with its early return
RECURSIVE DominanceLoop(_, _, _, _, _)
DominanceLoop(a, b, points, self_dominates, other_dominates) ==
    IF points = <<>>
    THEN IF self_dominates /\ other_dominates THEN "Equal"
         ELSE IF self_dominates THEN "Less"
         ELSE IF other_dominates THEN "Greater"
         ELSE "None"
    ELSE LET x == Head(points)
             k_self == count_leq(a, x)
             k_other == count_leq(b, x)
             self_le_other == SelfLeOther(k_self, Len(a), k_other, Len(b))
             other_le_self == k_other * Len(a) <= k_self * Len(b)
             sd == self_dominates /\ self_le_other
             od == other_dominates /\ other_le_self
         IN  IF ~sd /\ ~od THEN "None"
             ELSE DominanceLoop(a, b, Tail(points), sd, od)

\* EmpiricalCDF::partial_cmp; "None" is the Option's None
PartialCmp(a, b) ==
    IF a = <<>> \/ b = <<>> THEN "None"
    ELSE DominanceLoop(a, b, Dedup(SortBy(a \o b)), TRUE, TRUE)

\* outcome of a call: a value, or a panic
Ok(v) == [kind |-> "Ok", value |-> v]
Panic == [kind |-> "Panic", value |-> NaN]
NotCalled == [kind |-> "NotCalled", value |-> NaN]

\* stand-in for usize::MAX, above every length of the model
UsizeMax == Pow2(20)

\* mutant: the product is rounded down
Ceil_Floor(x) ==
    IF x.den = 0 THEN x
    ELSE F((x.num - (x.num % x.den)) \div x.den)

\* f64::ceil
Ceil(x) ==
    IF x.den = 0 THEN x
    ELSE F((x.num + ((x.den - (x.num % x.den)) % x.den)) \div x.den)

\* `as usize` on a float: truncates, saturates, and sends NaN to 0
AsUsize(x) ==
    IF is_nan(x) \/ x.num < 0 THEN 0
    ELSE IF x.den = 0 THEN UsizeMax
    ELSE x.num \div x.den

SaturatingSub(a, b) == IF a < b THEN 0 ELSE a - b

\* ((n as f64 * p).ceil() as usize).saturating_sub(1).min(n - 1)
QuantileIndex(len, p) ==
    Min(SaturatingSub(AsUsize(Ceil(FMul(F(len), p))), 1), len - 1)

\* Quantile::compute
QuantileCompute(sorted, p) ==
    IF ~(Len(sorted) > 0) THEN Panic
    ELSE Ok(sorted[QuantileIndex(Len(sorted), p) + 1])

\* QuantileInterval::compute
QuantileIntervalCompute(sorted, lower, upper) ==
    IF ~(Len(sorted) > 0) THEN Panic
    ELSE Ok(<<sorted[QuantileIndex(Len(sorted), lower) + 1],
              sorted[QuantileIndex(Len(sorted), upper) + 1]>>)

\* the probabilities given to Quantile::new: the multiples of 2^-PBits in [0,1]
Probabilities == { Norm(k, Pow2(PBits)) : k \in 0..Pow2(PBits) }

\* the floats an input slice is made of
CdfValues == { F(i) : i \in 1..6 } \cup {NaN}

RECURSIVE SeqsUpTo(_, _)
SeqsUpTo(S, len) ==
    IF len = 0 THEN {<<>>}
    ELSE LET shorter == SeqsUpTo(S, len - 1)
         IN  shorter \cup { Append(q, x) : q \in { r \in shorter : Len(r) = len - 1 }, x \in S }

\* longer slices, among them the sample 1..5 in and out of order
CdfExtra == { <<F(1), F(2), F(3), F(4), F(5)>>, <<F(4), F(1), NaN, F(5), F(3), F(2)>> }

CdfSlices == SeqsUpTo(CdfValues, CdfMaxLen) \cup CdfExtra

BuildSelf ==
    /\ cdf_pc = "idle"
    /\ \E d \in CdfSlices : self_sorted' = FromFloatSlice(d)
    /\ cdf_pc' = "self"
    /\ UNCHANGED <<other_sorted, cmp, quantile_p, quantile_ret, nonCdfVars>>

BuildOther ==
    /\ cdf_pc = "self"
    /\ \E d \in CdfSlices : other_sorted' = FromFloatSlice(d)
    /\ cdf_pc' = "both"
    /\ UNCHANGED <<self_sorted, cmp, quantile_p, quantile_ret, nonCdfVars>>

Compare ==
    /\ cdf_pc = "both"
    /\ cmp' = PartialCmp(self_sorted, other_sorted)
    /\ cdf_pc' = "compared"
    /\ UNCHANGED <<self_sorted, other_sorted, quantile_p, quantile_ret, nonCdfVars>>

IterIdle ==
    /\ scheme = "none"
    /\ data = <<>>
    /\ policy = NoPolicy
    /\ mode = "none"
    /\ subsample_size = 0
    /\ buffer = VecNew
    /\ omit_idx = 0
    /\ bit_reservoir = {}
    /\ bits_consumed = 64
    /\ ret = NotPulled
    /\ pulls = 0
    /\ yields = 0


QuantileCall ==
    /\ cdf_pc = "self"
    /\ \E p \in Probabilities :
        /\ quantile_p' = p
        /\ quantile_ret' = QuantileCompute(self_sorted, p)
    /\ cdf_pc' = "quantile"
    /\ UNCHANGED <<self_sorted, other_sorted, cmp, nonCdfVars>>

CdfIdle ==
    /\ self_sorted = <<>>
    /\ other_sorted = <<>>
    /\ cmp = "unset"
    /\ cdf_pc = "idle"
    /\ quantile_p = F(0)
    /\ quantile_ret = NotCalled

CdfNext ==
    \/ BuildSelf
    \/ BuildOther
    \/ Compare
    \/ QuantileCall

----------------------------------------------------------------------------
(* Interval *)

\* Option<T> of a float
NoneOf == [some |-> FALSE, v |-> NaN]
SomeOf(x) == [some |-> TRUE, v |-> x]

\* Interval::new
IntervalNew(lower, upper) ==
    [lower |-> lower, upper |-> upper, estimate |-> NoneOf, confidence |-> NoneOf]

\* Interval::estimate (builder)
WithEstimate(iv, e) == [iv EXCEPT !.estimate = SomeOf(e)]

\* Interval::confidence (builder)
WithConfidence(iv, c) == [iv EXCEPT !.confidence = SomeOf(c)]

\* Interval::nan
IntervalNan == IntervalNew(NaN, NaN)

\* Interval::contains
Contains(iv, value) == FLe(iv.lower, value) /\ FLe(value, iv.upper)

\* Interval::is_valid
IsValid(iv) ==
    IF FGt(iv.lower, iv.upper) THEN FALSE
    ELSE IF iv.estimate.some
            /\ (FLt(iv.estimate.v, iv.lower) \/ FGt(iv.estimate.v, iv.upper))
    THEN FALSE
    ELSE IF iv.confidence.some
    THEN FGt(iv.confidence.v, F(0)) /\ FLt(iv.confidence.v, F(1))
    ELSE TRUE

\* the floats the fields of an Interval are drawn from
CiValues == { NaN, F(0), F(1), F(2) }
CiLevels == { NaN, F(0), Norm(1, 2), F(1) }
Options(S) == {NoneOf} \cup { SomeOf(x) : x \in S }

Intervals ==
    [lower : CiValues, upper : CiValues, estimate : Options(CiValues),
     confidence : Options(CiLevels)]

CiInit ==
    /\ interval \in Intervals
    /\ valid = "unset"

CiIdle ==
    /\ interval = IntervalNan
    /\ valid = "idle"

IsValidCall ==
    /\ valid = "unset"
    /\ valid' = IF IsValid(interval) THEN "true" ELSE "false"
    /\ UNCHANGED <<interval, nonCiVars>>

CiNext == IsValidCall

----------------------------------------------------------------------------
(* StudentizedBootstrap::compute.  The statistic and the SE are type       *)
(* parameters: what they return on the sample and on each outer resample  *)
(* is drawn from StatValues and SeValues.  The outer resampler is a type  *)
(* parameter too: its iterator may end before `samples` resamples.        *)

StatValues == { NaN, F(0), F(1), F(2) }
SeValues == { NaN, F(0), F(1), F(2) }
Confidences == { F(0), Norm(1, 2), Norm(19, 20) }

\* mutant: the two probabilities are exchanged
Percentile_Swapped(conf) ==
    LET alpha == FSub(F(1), conf)
    IN  <<FSub(F(1), FDiv(alpha, F(2))), FDiv(alpha, F(2))>>

\* QuantileInterval::percentile
Percentile(conf) ==
    LET alpha == FSub(F(1), conf)
    IN  <<FDiv(alpha, F(2)), FSub(F(1), FDiv(alpha, F(2)))>>

\* the closure of filter_map: is the outer resample dropped?
Discarded(th_star, se_star) ==
    is_zero(se_star) \/ is_nan(th_star) \/ is_nan(se_star)

\* the closure of filter_map: the pivot of a resample that is kept
Pivot(th_star, th_hat, se_star) == FDiv(FSub(th_star, th_hat), se_star)

\* mutant: one pivot is taken for enough
TooFewPivots_One(len) == len < 1

\* t_star.len() < 2
TooFewPivots(len) == len < 2

\* the end of compute, from the ECDF of the pivots on
SbInterval(pivots, th_hat, se_hat, conf) ==
    LET ecdf == FromFloatSlice(pivots)
        ps == Percentile(conf)
        q == QuantileIntervalCompute(ecdf, ps[1], ps[2])
    IN  IF q = Panic THEN Panic
        ELSE LET t_lower == q.value[1]
                 t_upper == q.value[2]
                 lower == FSub(th_hat, FMul(t_upper, se_hat))
                 upper == FSub(th_hat, FMul(t_lower, se_hat))
             IN  Ok(WithConfidence(WithEstimate(IntervalNew(lower, upper), th_hat), conf))

SbInit ==
    /\ samples \in 0..SbMaxSamples
    /\ confidence \in Confidences
    /\ theta_hat = NaN
    /\ se_theta_hat = NaN
    /\ theta_star = NaN
    /\ se_theta_star = NaN
    /\ t_star = <<>>
    /\ taken = 0
    /\ sb_ret = NotCalled
    /\ sb_pc = "start"

SbIdle ==
    /\ samples = 0
    /\ confidence = F(0)
    /\ theta_hat = NaN
    /\ se_theta_hat = NaN
    /\ theta_star = NaN
    /\ se_theta_star = NaN
    /\ t_star = <<>>
    /\ taken = 0
    /\ sb_ret = NotCalled
    /\ sb_pc = "idle"

\* theta_hat, se_theta_hat and the first early return
SbStart ==
    /\ sb_pc = "start"
    /\ \E th \in StatValues, se \in SeValues :
        /\ theta_hat' = th
        /\ se_theta_hat' = se
        /\ IF is_nan(se) \/ is_zero(se)
           THEN sb_ret' = Ok(IntervalNan) /\ sb_pc' = "done"
           ELSE sb_ret' = sb_ret /\ sb_pc' = "outer"
    /\ UNCHANGED <<samples, confidence, theta_star, se_theta_star, t_star, taken,
                   nonSbVars>>

\* one outer resample goes through take(samples) and filter_map
SbOuter ==
    /\ sb_pc = "outer"
    /\ taken < samples
    /\ \E th \in StatValues, se \in SeValues :
        /\ theta_star' = th
        /\ se_theta_star' = se
        /\ t_star' = IF Discarded(th, se) THEN t_star
                      ELSE Append(t_star, Pivot(th, theta_hat, se))
    /\ taken' = taken + 1
    /\ UNCHANGED <<samples, confidence, theta_hat, se_theta_hat, sb_ret, sb_pc,
                   nonSbVars>>

\* collect() once take(samples) or the outer iterator has ended, and the rest
SbCollect ==
    /\ sb_pc = "outer"
    /\ sb_ret' = IF TooFewPivots(Len(t_star)) THEN Ok(IntervalNan)
                  ELSE SbInterval(t_star, theta_hat, se_theta_hat, confidence)
    /\ sb_pc' = "done"
    /\ UNCHANGED <<samples, confidence, theta_hat, se_theta_hat, theta_star,
                   se_theta_star, t_star, taken, nonSbVars>>

SbNext ==
    \/ SbStart
    \/ SbOuter
    \/ SbCollect

----------------------------------------------------------------------------
(* Statistics *)

\* Kahan summation: the loop of Mean::compute and Variance::compute
RECURSIVE KahanSum(_, _, _)
KahanSum(xs, sum, c) ==
    IF xs = <<>> THEN sum
    ELSE LET y == FSub(Head(xs), c)
             t == FAdd(sum, y)
         IN  KahanSum(Tail(xs), t, FSub(FSub(t, sum), y))

\* Mean::compute
MeanCompute(slice) == FMul(KahanSum(slice, F(0), F(0)), FRecip(F(Len(slice))))

\* Variance::compute with the value dof of slice.len() - self.ddof
VarianceWith(dof, slice) ==
    IF Len(slice) < 2 THEN NaN
    ELSE LET mean == MeanCompute(slice)
             sq == [i \in 1..Len(slice) |->
                      FMul(FSub(slice[i], mean), FSub(slice[i], mean))]
         IN  FDiv(KahanSum(sq, F(0), F(0)), F(dof))

\* Variance::compute where the subtraction does not overflow
VarianceCompute(ddof, slice) == VarianceWith(Len(slice) - ddof, slice)

\* Variance::compute for any ddof: slice.len() - self.ddof on usize aborts
\* when overflow checks are compiled in and wraps when they are not
VarianceOutcomes(ddof, slice) ==
    IF Len(slice) < 2 \/ ddof <= Len(slice) THEN {Ok(VarianceCompute(ddof, slice))}
    ELSE {Panic, Ok(VarianceWith((Len(slice) - ddof) % (UsizeMax + 1), slice))}

\* Variance::default
DefaultDdof == 1

\* Float::sqrt, rounded down to a multiple of 1/SqrtScale
FSqrt(x) ==
    IF is_nan(x) \/ x.num < 0 THEN NaN
    ELSE IF x.den = 0 THEN x
    ELSE Norm(ISqrt((x.num * SqrtScale * SqrtScale) \div x.den), SqrtScale)

\* Float::powi(3)
Powi3(x) == FMul(FMul(x, x), x)

\* Skewness::compute
SkewnessCompute(unbiased, slice) ==
    LET len == Len(slice) IN
    IF len < 3 /\ unbiased THEN NaN
    ELSE IF len < 2 THEN NaN
    ELSE LET n_f == F(len)
             mean == MeanCompute(slice)
             dev(i) == FSub(slice[i], mean)
             sum2 == KahanSum([i \in 1..len |-> FMul(dev(i), dev(i))], F(0), F(0))
             sum3 == KahanSum([i \in 1..len |-> FMul(FMul(dev(i), dev(i)), dev(i))],
                              F(0), F(0))
             m2 == FDiv(sum2, n_f)
             m3 == FDiv(sum3, n_f)
             n1 == FSub(n_f, F(1))
             n2 == FSub(n_f, F(2))
             k2 == FMul(FDiv(n_f, n1), m2)
             k3 == FMul(FDiv(FMul(n_f, n_f), FMul(n1, n2)), m3)
         IN  IF unbiased
             THEN IF n1 = F(0) \/ n2 = F(0) THEN NaN
                  ELSE IF Powi3(FSqrt(k2)) = F(0) THEN NaN
                  ELSE FDiv(k3, Powi3(FSqrt(k2)))
             ELSE IF Powi3(FSqrt(m2)) = F(0) THEN NaN
                  ELSE FDiv(m3, Powi3(FSqrt(m2)))

\* Kurtosis::compute
KurtosisCompute(unbiased, slice) ==
    LET len == Len(slice) IN
    IF len < 4 /\ unbiased THEN NaN
    ELSE IF len < 2 THEN NaN
    ELSE LET n_f == F(len)
             mean == MeanCompute(slice)
             dev2(i) == FMul(FSub(slice[i], mean), FSub(slice[i], mean))
             sum2 == KahanSum([i \in 1..len |-> dev2(i)], F(0), F(0))
             sum4 == KahanSum([i \in 1..len |-> FMul(dev2(i), dev2(i))], F(0), F(0))
             m2 == FDiv(sum2, n_f)
             m4 == FDiv(sum4, n_f)
             n1 == FSub(n_f, F(1))
             n2 == FSub(n_f, F(2))
             n3 == FSub(n_f, F(3))
             k2 == FMul(FDiv(n_f, n1), m2)
             numerator == FSub(FMul(FMul(FMul(n_f, n_f), FAdd(n_f, F(1))), m4),
                               FMul(FMul(FMul(F(3), n_f), n1), FMul(m2, m2)))
             k4 == FDiv(numerator, FMul(FMul(n1, n2), n3))
         IN  IF unbiased
             THEN IF n1 = F(0) \/ n2 = F(0) \/ n3 = F(0) THEN NaN
                  ELSE IF FMul(k2, k2) = F(0) THEN NaN
                  ELSE FDiv(k4, FMul(k2, k2))
             ELSE FSub(FDiv(m4, FMul(m2, m2)), F(3))

\* ThirdCumulant::compute
ThirdCumulantCompute(unbiased, slice) ==
    LET len == Len(slice) IN
    IF len < 3 /\ unbiased THEN NaN
    ELSE IF len < 2 THEN NaN
    ELSE LET n_f == F(len)
             mean == MeanCompute(slice)
             dev(i) == FSub(slice[i], mean)
             sum3 == KahanSum([i \in 1..len |-> FMul(FMul(dev(i), dev(i)), dev(i))],
                              F(0), F(0))
             m3 == FDiv(sum3, n_f)
             n1 == FSub(n_f, F(1))
             n2 == FSub(n_f, F(2))
             correction == FDiv(FMul(n_f, n_f), FMul(n1, n2))
         IN  IF unbiased
             THEN IF n1 = F(0) \/ n2 = F(0) THEN NaN ELSE FMul(m3, correction)
             ELSE m3

\* the correction factor of FourthCumulant::compute
FourthCorrection(n_f, n1, n2, n3) == FDiv(FMul(n_f, n_f), FMul(FMul(n1, n2), n3))

\* FourthCumulant::compute
FourthCumulantCompute(unbiased, slice) ==
    LET len == Len(slice) IN
    IF len < 4 /\ unbiased THEN NaN
    ELSE IF len < 2 THEN NaN
    ELSE LET n_f == F(len)
             mean == MeanCompute(slice)
             dev2(i) == FMul(FSub(slice[i], mean), FSub(slice[i], mean))
             sum2 == KahanSum([i \in 1..len |-> dev2(i)], F(0), F(0))
             sum4 == KahanSum([i \in 1..len |-> FMul(dev2(i), dev2(i))], F(0), F(0))
             m2 == FDiv(sum2, n_f)
             m4 == FDiv(sum4, n_f)
             n1 == FSub(n_f, F(1))
             n2 == FSub(n_f, F(2))
             n3 == FSub(n_f, F(3))
             numerator == FSub(FMul(FAdd(n_f, F(1)), m4),
                               FMul(FMul(F(3), n1), FMul(m2, m2)))
         IN  IF unbiased
             THEN IF n1 = F(0) \/ n2 = F(0) \/ n3 = F(0) THEN NaN
                  ELSE FMul(numerator, FourthCorrection(n_f, n1, n2, n3))
             ELSE FSub(m4, FMul(FMul(F(3), m2), m2))

\* the statistic an SE or a Studentized is built on
StatCompute(stat, slice) ==
    IF stat = "Mean" THEN MeanCompute(slice) ELSE VarianceCompute(DefaultDdof, slice)

----------------------------------------------------------------------------
(* Resampling with a seeded RNG.  The RNG is a linear congruential        *)
(* generator on 0..RngMod-1; gen_range reduces its next output.           *)

\* one step of the generator
RngNext(rng) == ((5 * rng) + 3) % RngMod

\* rng.gen_range(..) once for every bound of the sequence, in order
RECURSIVE GenRanges(_, _)
GenRanges(rng, limits) ==
    IF limits = <<>> THEN [vals |-> <<>>, rng |-> rng]
    ELSE LET r1 == RngNext(rng)
             rest == GenRanges(r1, Tail(limits))
         IN  [vals |-> <<r1 % Head(limits)>> \o rest.vals, rng |-> rest.rng]

\* the resamplers that go through a seeded RNG or none
ReKinds == {"Jackknife", "Bootstrap", "Shuffle"}

\* JackknifeIter::new, BootstrapIter::new, ShuffleIter::new on the RNG handed over
IterNew(kind, rng) == [kind |-> kind, rng |-> rng, omit_idx |-> 0]

\* next() of the iterator `it` over d: what it returns and what it becomes
IterNext(it, d) ==
    LET len == Len(d) IN
    IF it.kind = "Jackknife"
    THEN IF JackknifeDone(it.omit_idx, len) THEN [out |-> None, it |-> it]
         ELSE [out |-> Some(JackknifeCopy(d, SetLen(JackknifeNew(d), len - 1),
                                         it.omit_idx).elems),
               it |-> [it EXCEPT !.omit_idx = JackknifeAdvance(it.omit_idx)]]
    ELSE IF it.kind = "Bootstrap"
    THEN LET g == GenRanges(it.rng, [i \in 1..len |-> len])
         IN  [out |-> Some(BootstrapFill(d, SetLen(WithCapacity(len), len), g.vals).elems),
              it |-> [it EXCEPT !.rng = g.rng]]
    ELSE LET g == GenRanges(it.rng, [t \in 1..(len - 1) |-> len - t + 1])
             J == [i \in 1..(len - 1) |-> g.vals[len - i]]
             b == CopyNonoverlapping(d, 0, SetLen(WithCapacity(len), len), 0, len)
         IN  [out |-> Some(IF len > 1 THEN FisherYates(b.elems, len - 1, J) ELSE b.elems),
              it |-> [it EXCEPT !.rng = g.rng]]

\* .take(count).collect(): the resamples the iterator yields, at most count
RECURSIVE TakeCollect(_, _, _)
TakeCollect(it, d, count) ==
    IF count = 0 THEN <<>>
    ELSE LET r == IterNext(it, d)
         IN  IF r.out.kind = "None" THEN <<>>
             ELSE <<r.out.data>> \o TakeCollect(r.it, d, count - 1)

\* self.rng.clone() in re()
RngClone(rng) == rng

\* the estimates of SE::compute
SeEstimates(se, d) ==
    LET resamples == TakeCollect(IterNew(se.resampler, RngClone(se.rng)), d, se.samples)
    IN  [i \in 1..Len(resamples) |-> StatCompute(se.statistic, resamples[i])]

\* mutant: the variance of the estimates is returned as it is
SeCompute_NoSqrt(se, d) == VarianceCompute(DefaultDdof, SeEstimates(se, d))

\* SE::compute
SeCompute(se, d) == FSqrt(VarianceCompute(DefaultDdof, SeEstimates(se, d)))

\* mutant: a zero SE is divided by
StudentizedUndefined_NoZero(estimate, se_val) == is_nan(estimate) \/ is_nan(se_val)

\* the guard of Studentized::compute
StudentizedUndefined(estimate, se_val) ==
    is_zero(se_val) \/ is_nan(estimate) \/ is_nan(se_val)

\* Studentized::compute
StudentizedCompute(st, d) ==
    LET estimate == StatCompute(st.statistic, d)
        se_val == SeCompute(st, d)
    IN  IF StudentizedUndefined(estimate, se_val) THEN NaN
        ELSE FDiv(FSub(estimate, st.null_value), se_val)

\* the samples the estimators are called on
StatSamples ==
    { <<>>, <<F(1)>>, <<F(2), F(2)>>, <<F(1), F(3)>>, <<F(0), F(2), F(4)>>,
      <<F(1), F(1), F(2)>>, <<F(0), F(1), F(1), F(2)>>, <<F(0), F(0), F(0), F(4)>>, <<F(1), NaN>> }

StatKinds ==
    {"Mean", "Variance", "Skewness", "Kurtosis", "ThirdCumulant", "FourthCumulant",
     "SE", "Studentized"}

\* the fields of the estimators
Estimators(kind) ==
    IF kind \in {"Skewness", "Kurtosis", "ThirdCumulant", "FourthCumulant"}
    THEN [unbiased : BOOLEAN]
    ELSE IF kind \in {"SE", "Studentized"}
    THEN { e \in [statistic : {"Mean", "Variance"}, resampler : {"Jackknife", "Bootstrap"},
                  rng : {0, 1}, samples : (0..SeMaxSamples) \cup {UsizeMax},
                  null_value : {F(0), F(1)}] :
             \* usize::MAX is what SE::jackknife sets
             e.samples = UsizeMax => e.resampler = "Jackknife" }
    ELSE IF kind = "Variance"
    THEN [ddof : 0..MaxDdof]
    ELSE {[unit |-> TRUE]}

StatInit ==
    /\ stat_kind \in StatKinds
    /\ estimator \in Estimators(stat_kind)
    /\ stat_data \in StatSamples
    /\ stat_ret = NotCalled

StatIdle ==
    /\ stat_kind = "none"
    /\ estimator = [unit |-> TRUE]
    /\ stat_data = <<>>
    /\ stat_ret = NotCalled

\* the call ends with outcome o
StatOutcome(o) ==
    /\ stat_ret = NotCalled
    /\ stat_ret' = o
    /\ UNCHANGED <<stat_kind, estimator, stat_data, nonStatVars>>

StatReturn(v) == StatOutcome(Ok(v))

MeanCall == stat_kind = "Mean" /\ StatReturn(MeanCompute(stat_data))

VarianceCall ==
    /\ stat_kind = "Variance"
    /\ \E o \in VarianceOutcomes(estimator.ddof, stat_data) : StatOutcome(o)

SkewnessCall ==
    stat_kind = "Skewness" /\ StatReturn(SkewnessCompute(estimator.unbiased, stat_data))

KurtosisCall ==
    stat_kind = "Kurtosis" /\ StatReturn(KurtosisCompute(estimator.unbiased, stat_data))

ThirdCumulantCall ==
    /\ stat_kind = "ThirdCumulant"
    /\ StatReturn(ThirdCumulantCompute(estimator.unbiased, stat_data))

FourthCumulantCall ==
    /\ stat_kind = "FourthCumulant"
    /\ StatReturn(FourthCumulantCompute(estimator.unbiased, stat_data))

SeCall == stat_kind = "SE" /\ StatReturn(SeCompute(estimator, stat_data))

StudentizedCall ==
    stat_kind = "Studentized" /\ StatReturn(StudentizedCompute(estimator, stat_data))

StatNext ==
    \/ MeanCall
    \/ VarianceCall
    \/ SkewnessCall
    \/ KurtosisCall
    \/ ThirdCumulantCall
    \/ FourthCumulantCall
    \/ SeCall
    \/ StudentizedCall

----------------------------------------------------------------------------
(* Two runs over one seeded resampler: re() takes &self and hands the     *)
(* iterator a clone of the stored RNG.                                    *)

\* mutant: re() draws from the stored RNG itself
AfterRe_Advanced(rng) == RngNext(rng)

\* the stored RNG after re(&self, ..)
AfterRe(rng) == rng

NoIter == [kind |-> "none", rng |-> 0, omit_idx |-> 0]

Runs == {1, 2}

ReSamples == { <<>>, <<F(1), F(2)>>, <<F(1), F(2), F(3)>> }

\* the SE built on the resampler
ReSe == [statistic |-> "Mean", resampler |-> resampler.kind, rng |-> resampler.rng,
         samples |-> re_samples, null_value |-> F(0)]

ReInit ==
    /\ resampler \in { r \in [kind : ReKinds, rng : 0..(RngMod - 1)] :
                          r.kind = "Jackknife" => r.rng = 0 }
    /\ re_data \in ReSamples
    /\ re_samples \in 0..SeMaxSamples
    /\ re_iters = [i \in Runs |-> NoIter]
    /\ re_outs = [i \in Runs |-> <<>>]
    /\ re_se = [i \in Runs |-> NotCalled]

ReIdle ==
    /\ resampler = [kind |-> "none", rng |-> 0]
    /\ re_data = <<>>
    /\ re_samples = 0
    /\ re_iters = [i \in Runs |-> NoIter]
    /\ re_outs = [i \in Runs |-> <<>>]
    /\ re_se = [i \in Runs |-> NotCalled]

\* Re::re
ReCall(i) ==
    /\ re_iters[i] = NoIter
    /\ re_iters' = [re_iters EXCEPT ![i] = IterNew(resampler.kind, RngClone(resampler.rng))]
    /\ resampler' = [resampler EXCEPT !.rng = AfterRe(resampler.rng)]
    /\ UNCHANGED <<re_data, re_samples, re_outs, re_se, nonReVars>>

\* Iterator::next on the i-th iterator
ReIterNext(i) ==
    /\ re_iters[i] # NoIter
    /\ Len(re_outs[i]) < RePulls
    /\ LET r == IterNext(re_iters[i], re_data)
       IN  /\ re_iters' = [re_iters EXCEPT ![i] = r.it]
           /\ re_outs' = [re_outs EXCEPT ![i] = Append(re_outs[i], r.out)]
    /\ UNCHANGED <<resampler, re_data, re_samples, re_se, nonReVars>>

\* SE::compute, which calls re() on its resampler
ReSeCompute(i) ==
    /\ re_se[i] = NotCalled
    /\ re_se' = [re_se EXCEPT ![i] = Ok(SeCompute(ReSe, re_data))]
    /\ resampler' = [resampler EXCEPT !.rng = AfterRe(resampler.rng)]
    /\ UNCHANGED <<re_data, re_samples, re_iters, re_outs, nonReVars>>

ReNext ==
    \E i \in Runs :
        \/ ReCall(i)
        \/ ReIterNext(i)
        \/ ReSeCompute(i)

----------------------------------------------------------------------------
(* Permutation tests: MeanTest::compute and VarianceTest::compute.  The     *)
(* floats handed to the Flipper are bit patterns of FloatBits bits: a sign *)
(* bit above the magnitude of an integer.                                  *)

\* f64::to_bits, for a float that is an integer below 2^(FloatBits-1) in size
to_bits(x) == (IF x.num < 0 THEN SignMask ELSE 0) + Abs(x.num)

\* f64::from_bits
from_bits(b) == F((IF b >= SignMask THEN 0 - 1 ELSE 1) * (b % SignMask))

Bits(xs) == [i \in 1..Len(xs) |-> to_bits(xs[i])]
Floats(bs) == [i \in 1..Len(bs) |-> from_bits(bs[i])]

Ints(s) == [i \in 1..Len(s) |-> F(s[i])]

\* the data given to a test; a VarianceTest needs an integer mean here
TestSamples(kind) ==
    { Ints(<<>>), Ints(<<1>>), Ints(<<0 - 1, 1, 0 - 2, 2>>), Ints(<<1, 3>>),
      Ints(<<0, 2, 4>>), Ints(<<2, 2>>), Ints(<<3, 1, 2>>),
      Ints([i \in 1..FlipMaxN |-> IF i = FlipMaxN THEN (FlipMaxN * (FlipMaxN - 1)) \div 2 ELSE i]) }
    \cup (IF kind = "MeanTest" THEN { Ints(<<1, 2>>), Ints(<<0, 0, 5>>) } ELSE {})

\* the centered data of the test
Centered(kind, d, null) ==
    LET shift == IF kind = "MeanTest" THEN null ELSE MeanCompute(d)
    IN  [i \in 1..Len(d) |-> FSub(d[i], shift)]

\* the statistic of the centered data: observed_stat or observed_var
ObservedStatistic(kind, centered) ==
    IF kind = "MeanTest" THEN MeanCompute(centered)
    ELSE VarianceCompute(DefaultDdof, centered)

\* observed_abs or observed_deviation, and the closure given to map
Deviation(kind, resample, null) ==
    IF kind = "MeanTest" THEN FAbs(MeanCompute(resample))
    ELSE FAbs(FSub(VarianceCompute(DefaultDdof, resample), null))

\* mutant: only a strictly more extreme resample counts
AtLeastAsExtreme_Strict(stat, obs) == FGt(stat, obs)

\* the closure given to filter
AtLeastAsExtreme(stat, obs) == FGe(stat, obs)

\* mutant: no continuity correction
PValue_NoCorrection(count, perms) == FDiv(F(count), F(perms))

\* F::from(extreme_count + 1) / F::from(n_permutations + 1)
PValue(count, perms) == FDiv(F(count + 1), F(perms + 1))

TestResult(obs, pv) == [observed_statistic |-> obs, p_value |-> pv]

\* what compute returns at once on too short a sample
TooShort(kind, d) == IF kind = "MeanTest" THEN Len(d) = 0 ELSE Len(d) < 2

TestInit ==
    /\ test_kind \in {"MeanTest", "VarianceTest"}
    /\ test_data \in TestSamples(test_kind)
    /\ null_value \in {F(0), F(1)}
    /\ n_permutations \in 1..MaxPermutations
    /\ observed = NaN
    /\ permuted_stats = <<>>
    /\ extreme_count = 0
    /\ test_ret = NotCalled
    /\ test_pc = "start"

TestIdle ==
    /\ test_kind = "none"
    /\ test_data = <<>>
    /\ null_value = F(0)
    /\ n_permutations = 0
    /\ observed = NaN
    /\ permuted_stats = <<>>
    /\ extreme_count = 0
    /\ test_ret = NotCalled
    /\ test_pc = "idle"

\* from the entry of compute to flipper.re(&centered)
TestStart ==
    /\ test_pc = "start"
    /\ IF TooShort(test_kind, test_data)
       THEN /\ test_ret' = Ok(TestResult(IF test_kind = "MeanTest" THEN F(0) ELSE NaN, F(1)))
            /\ test_pc' = "done"
            /\ UNCHANGED <<observed, iterVars>>
       ELSE LET centered == Centered(test_kind, test_data, null_value)
                stat == ObservedStatistic(test_kind, centered)
            IN  /\ observed' = IF test_kind = "MeanTest" THEN FAbs(stat)
                                ELSE FAbs(FSub(stat, null_value))
                /\ test_ret' = Ok(TestResult(stat, NaN))
                /\ scheme' = "Flipper"
                /\ data' = Bits(centered)
                /\ buffer' = WithCapacity(Len(centered))
                /\ bit_reservoir' = {}
                /\ bits_consumed' = 64
                /\ test_pc' = "permute"
                /\ UNCHANGED <<omit_idx, policy, mode, subsample_size, ret, pulls, yields>>
    /\ UNCHANGED <<test_kind, test_data, null_value, n_permutations, permuted_stats,
                   extreme_count, nonTestVars>>

\* take(n_permutations) pulls one resample through map
TestPermute ==
    /\ test_pc = "permute"
    /\ Len(permuted_stats) < n_permutations
    /\ FlipperStep
    /\ permuted_stats' =
         Append(permuted_stats, Deviation(test_kind, Floats(ret'.data), null_value))
    /\ UNCHANGED <<test_kind, test_data, null_value, n_permutations, observed,
                   extreme_count, test_ret, test_pc, nonTestVars>>

\* collect(), the count of the extreme resamples and the p-value
TestFinish ==
    /\ test_pc = "permute"
    /\ Len(permuted_stats) = n_permutations
    /\ LET count == Cardinality({ i \in 1..Len(permuted_stats) :
                                    AtLeastAsExtreme(permuted_stats[i], observed) })
       IN  /\ extreme_count' = count
           /\ test_ret' = Ok(TestResult(test_ret.value.observed_statistic,
                                        PValue(count, n_permutations)))
    /\ test_pc' = "done"
    /\ UNCHANGED <<test_kind, test_data, null_value, n_permutations, observed,
                   permuted_stats, iterVars, nonTestVars>>

TestNext ==
    \/ TestStart
    \/ TestPermute
    \/ TestFinish

----------------------------------------------------------------------------
(* Specifications.  Each one runs one part of the library from its        *)
(* constructed state and leaves the fields of the other parts untouched.  *)

Init == IterInit /\ CdfIdle /\ CiIdle /\ SbIdle /\ TestIdle /\ StatIdle /\ ReIdle

Spec == Init /\ [][Next]_vars

CdfInit == IterIdle /\ CdfIdle /\ CiIdle /\ SbIdle /\ TestIdle /\ StatIdle /\ ReIdle

SpecCdf == CdfInit /\ [][CdfNext]_vars

InitSb == IterIdle /\ CdfIdle /\ CiIdle /\ SbInit /\ TestIdle /\ StatIdle /\ ReIdle

SpecSb == InitSb /\ [][SbNext]_vars

InitTest == IterIdle /\ CdfIdle /\ CiIdle /\ SbIdle /\ TestInit /\ StatIdle /\ ReIdle

SpecTest == InitTest /\ [][TestNext]_vars

InitStat == IterIdle /\ CdfIdle /\ CiIdle /\ SbIdle /\ TestIdle /\ StatInit /\ ReIdle

SpecStat == InitStat /\ [][StatNext]_vars

InitRe == IterIdle /\ CdfIdle /\ CiIdle /\ SbIdle /\ TestIdle /\ StatIdle /\ ReInit

SpecRe == InitRe /\ [][ReNext]_vars

InitCi == IterIdle /\ CdfIdle /\ CiInit /\ SbIdle /\ TestIdle /\ StatIdle /\ ReIdle

SpecCi == InitCi /\ [][CiNext]_vars

----------------------------------------------------------------------------
(* Properties *)

Range(s) == { s[i] : i \in 1..Len(s) }
CountOf(s, x) == Cardinality({ i \in 1..Len(s) : s[i] = x })
SameMultiset(s, t) ==
    /\ Len(s) = Len(t)
    /\ \A x \in Range(s) \cup Range(t) : CountOf(s, x) = CountOf(t, x)
\* s without the element at index i (counted from 0)
RemoveAt(s, i) == [p \in 1..(Len(s) - 1) |-> IF p <= i THEN s[p] ELSE s[p + 1]]
\* v with its sign bit toggled
Toggled(v) == IF v >= SignMask THEN v - SignMask ELSE v + SignMask

\* C1: on a sample of length n >= 1, pull number i (i = 0..n-1) of the
\* Jackknife iterator yields the input without its element at index i, the
\* others in their order (length n-1).
C1_JackknifeLeaveOneOut ==
    (scheme = "Jackknife" /\ n >= 1 /\ pulls >= 1 /\ pulls <= n)
        => /\ ret.kind = "Some"
           /\ Len(ret.data) = n - 1
           /\ ret.data = RemoveAt(data, pulls - 1)

C1_Witness ==
    /\ scheme = "Jackknife"
    /\ n = 3
    /\ pulls = 2
    /\ ret = Some(<<data[1], data[3]>>)

\* C2: the Jackknife iterator yields exactly n resamples, one per pull for
\* the first n pulls, and every later pull returns None.
C2_JackknifeExactlyN ==
    scheme = "Jackknife"
        => /\ yields = Min(pulls, n)
           /\ (pulls > n => ret = None)
           /\ (pulls >= 1 /\ pulls <= n => ret.kind = "Some")

C2_Witness ==
    /\ scheme = "Jackknife"
    /\ n >= 2
    /\ pulls >= n + 2
    /\ yields = n
    /\ ret = None

\* C3: every pull on a Bootstrap, Shuffle or Flipper iterator returns a
\* resample (never None) of length exactly n, for n >= 0 and after any
\* number of earlier pulls.
C3_FullLengthEveryPull ==
    (scheme \in {"Bootstrap", "Shuffle", "Flipper"} /\ pulls >= 1)
        => /\ ret.kind = "Some"
           /\ Len(ret.data) = n
           /\ yields = pulls

C3_Witness ==
    /\ scheme = "Flipper"
    /\ n = 0
    /\ pulls >= 2
    /\ ret = Some(<<>>)

\* C4: every resample Shuffle yields holds the same multiset of values as
\* the input.
C4_ShufflePermutation ==
    (scheme = "Shuffle" /\ ret.kind = "Some") => SameMultiset(ret.data, data)

C4_Witness ==
    /\ scheme = "Shuffle"
    /\ data = <<2, 1, 2>>
    /\ ret = Some(<<2, 2, 1>>)

\* C5: every element of a Bootstrap resample is a value of the input; no
\* value absent from the input (nor an unwritten slot) appears.
C5_BootstrapNoForeignValue ==
    (scheme = "Bootstrap" /\ ret.kind = "Some")
        => \A i \in 1..Len(ret.data) : ret.data[i] \in Range(data)

C5_Witness ==
    /\ scheme = "Bootstrap"
    /\ n = 3
    /\ ret = Some(<<data[3], data[3], data[1]>>)

\* C6: in every resample of the sign-flip Flipper, element i is input
\* element i with at most its sign bit toggled: the other bits and the
\* position are unchanged.
C6_OnlySignBitToggles ==
    (scheme = "Flipper" /\ ret.kind = "Some")
        => /\ Len(ret.data) = n
           /\ \A i \in 1..n :
                /\ ret.data[i] \in {data[i], Toggled(data[i])}
                /\ ret.data[i] % SignMask = data[i] % SignMask

C6_Witness ==
    /\ scheme = "Flipper"
    /\ n >= 9
    /\ pulls >= 2
    /\ ret.kind = "Some"
    /\ ret.data[1] = Toggled(data[1])
    /\ ret.data[2] = data[2]
    /\ ret.data[9] = Toggled(data[9])

\* C7 as stated: for every scheme, the first pull on an iterator built on a
\* zero-length sample yields an empty resample.
C7_EmptyYieldsEmptyResample ==
    (n = 0 /\ pulls = 1) => ret = Some(<<>>)

\* C7 as amended: on a zero-length sample every pull of Bootstrap, Flipper,
\* Shuffle and Subsample yields an empty resample, and Jackknife is finished
\* at once: every pull returns None and nothing is yielded.
C7_EmptyInput ==
    (n = 0 /\ pulls >= 1)
        => IF scheme = "Jackknife"
           THEN ret = None /\ yields = 0
           ELSE ret = Some(<<>>) /\ yields = pulls

C7_Witness ==
    /\ scheme = "Jackknife"
    /\ n = 0
    /\ pulls >= 1
    /\ ret = None

\* C8: every resample Subsample yields has length min(policy(n), n), in both
\* modes and for every policy; with the default policy that is
\* floor(sqrt(n)).
C8_SubsampleLength ==
    (scheme = "Subsample" /\ pulls >= 1)
        => /\ ret.kind = "Some"
           /\ Len(ret.data) = Min(PolicyApply(policy, n), n)
           /\ policy.kind = "sqrt"
                => /\ Len(ret.data) * Len(ret.data) <= n
                   /\ (Len(ret.data) + 1) * (Len(ret.data) + 1) > n

C8_Witness ==
    /\ scheme = "Subsample"
    /\ mode = "WithoutReplacement"
    /\ policy = [kind |-> "fixed", arg |-> 2]
    /\ n = 1
    /\ ret.kind = "Some"
    /\ Len(ret.data) = 1

\* the positions 0..len-1 as a sample
Positions(len) == [i \in 1..len |-> i - 1]

\* C9: in without-replacement mode, for every n and k >= 1 and in both
\* branches, the yielded elements come from k distinct positions and every
\* k-subset of the positions is produced by the same number of draw
\* sequences.
C9_UniformSubset ==
    (scheme = "Subsample" /\ mode = "WithoutReplacement" /\ ret.kind = "Some"
        /\ subsample_size >= 1)
        => LET k == subsample_size
               runs == WithoutReplacementRuns(WithCapacity(k), Positions(n), k)
               chosen(r) == Range(WithoutReplacementYield(r[1], k, n))
               ways(S) == Cardinality(UNION { {r[1]} \X (1..r[2]) :
                                                r \in { q \in runs : chosen(q) = S } })
               subsets == { S \in SUBSET (0..(n - 1)) : Cardinality(S) = k }
           IN  /\ \A r \in runs : Cardinality(chosen(r)) = k
               /\ \A S1, S2 \in subsets : ways(S1) = ways(S2)

\* C10 as stated: the ECDF of [1,2,3] compared with the ECDF of [2,3,4]
\* gives Some(Less).
C10_LessAsStated ==
    (cdf_pc = "compared" /\ self_sorted = <<F(1), F(2), F(3)>> /\ other_sorted = <<F(2), F(3), F(4)>>)
        => cmp = "Less"

\* C10 as amended: the ECDF of [1,2,3] compared with the ECDF of [2,3,4]
\* gives Some(Greater): the ECDF of [2,3,4], nowhere above the other, is the
\* dominating one.
C10_Greater ==
    (cdf_pc = "compared" /\ self_sorted = <<F(1), F(2), F(3)>> /\ other_sorted = <<F(2), F(3), F(4)>>)
        => cmp = "Greater"

C10_Witness ==
    /\ cdf_pc = "compared"
    /\ self_sorted = <<F(1), F(2), F(3)>>
    /\ other_sorted = <<F(2), F(3), F(4)>>
    /\ cmp = "Greater"

\* number of points of an ECDF that are not above x
LeqCount(sorted, x) == Cardinality({ i \in 1..Len(sorted) : FLe(sorted[i], x) })

\* a(x) <= b(x) at every jump point of the two ECDFs, by cross products
NowhereAbove(a, b) ==
    \A x \in Range(a) \cup Range(b) :
        LeqCount(a, x) * Len(b) <= LeqCount(b, x) * Len(a)

\* C11: a.partial_cmp(b) is None when either ECDF is empty; otherwise it is
\* Some(Equal) iff the step functions agree at every jump point, Some(Less)
\* iff a(x) <= b(x) at every jump point and a(x) < b(x) at one of them,
\* Some(Greater) iff b(x) <= a(x) at every jump point and b(x) < a(x) at one
\* of them, and None iff each is strictly above the other somewhere.
C11_StochasticDominance ==
    cdf_pc = "compared" =>
        LET a == self_sorted
            b == other_sorted
        IN  IF a = <<>> \/ b = <<>> THEN cmp = "None"
            ELSE /\ cmp = "Equal" <=> (NowhereAbove(a, b) /\ NowhereAbove(b, a))
                 /\ cmp = "Less" <=> (NowhereAbove(a, b) /\ ~NowhereAbove(b, a))
                 /\ cmp = "Greater" <=> (NowhereAbove(b, a) /\ ~NowhereAbove(a, b))
                 /\ cmp = "None" <=> (~NowhereAbove(a, b) /\ ~NowhereAbove(b, a))

C11_Witness ==
    /\ cdf_pc = "compared"
    /\ self_sorted = <<F(1), F(3), F(5)>>
    /\ other_sorted = <<F(2), F(2), F(6)>>
    /\ cmp = "None"

\* C12: on a non-empty ECDF with n points and p in [0,1], Quantile(p) is
\* points[min(n-1, max(0, ceil(n*p)-1))], an index within 0..n-1 (on
\* [1,2,3,4,5]: 3 for p = 1/2, 1 for p = 0, 5 for p = 1); on an empty ECDF the
\* call fails.
C12_QuantileIndex ==
    cdf_pc = "quantile" =>
        LET len == Len(self_sorted)
            den == Pow2(PBits)
            k == quantile_p.num * (den \div quantile_p.den)
            ceil == ((len * k) + den - 1) \div den
            idx == Min(len - 1, IF ceil - 1 > 0 THEN ceil - 1 ELSE 0)
        IN  IF len = 0 THEN quantile_ret = Panic
            ELSE /\ idx \in 0..(len - 1)
                 /\ quantile_ret = Ok(self_sorted[idx + 1])
                 /\ self_sorted = <<F(1), F(2), F(3), F(4), F(5)>> =>
                        /\ quantile_p = Norm(1, 2) => quantile_ret = Ok(F(3))
                        /\ quantile_p = F(0) => quantile_ret = Ok(F(1))
                        /\ quantile_p = F(1) => quantile_ret = Ok(F(5))

C12_Witness ==
    /\ cdf_pc = "quantile"
    /\ self_sorted = <<F(1), F(2), F(3), F(4), F(5)>>
    /\ quantile_p = Norm(1, 2)
    /\ quantile_ret = Ok(F(3))

\* C13: whenever StudentizedBootstrap::compute returns an interval whose
\* bounds are not NaN, lower <= estimate <= upper.
C13_ContainsEstimate ==
    (sb_pc = "done" /\ sb_ret.kind = "Ok"
        /\ ~is_nan(sb_ret.value.lower) /\ ~is_nan(sb_ret.value.upper))
        => /\ sb_ret.value.estimate.some
           /\ Contains(sb_ret.value, sb_ret.value.estimate.v)

\* C14: at most `samples` outer resamples are drawn; an outer resample whose
\* SE is zero or NaN, or whose statistic is NaN, adds no pivot (and every
\* other one adds its pivot); the NaN interval is returned whenever fewer
\* than 2 pivots were kept or the SE of the original sample is zero or NaN.
C14_DiscardAndSentinel ==
    /\ [](taken <= samples)
    /\ []((sb_pc = "done" /\ (Len(t_star) < 2 \/ is_nan(se_theta_hat) \/ is_zero(se_theta_hat)))
            => sb_ret = Ok(IntervalNan))
    /\ [][taken' = taken + 1 =>
            IF is_nan(se_theta_star') \/ is_zero(se_theta_star') \/ is_nan(theta_star')
            THEN t_star' = t_star
            ELSE Len(t_star') = Len(t_star) + 1]_vars

C14_Witness ==
    /\ sb_pc = "done"
    /\ taken = samples
    /\ samples = SbMaxSamples
    /\ Len(t_star) = 1
    /\ ~is_nan(se_theta_hat)
    /\ ~is_zero(se_theta_hat)
    /\ sb_ret = Ok(IntervalNan)

\* C15: StudentizedBootstrap::compute never fails: it returns an Interval
\* whatever the statistic and the SE return.
C15_ComputeIsTotal == sb_ret.kind # "Panic"

\* C19: whenever Interval::is_valid returns true, lower <= upper, the
\* estimate (if present) lies in [lower, upper] and the confidence (if
\* present) lies strictly between 0 and 1, for every Interval value.
C19_ValidImpliesInvariant ==
    valid = "true" =>
        /\ FLe(interval.lower, interval.upper)
        /\ interval.estimate.some => Contains(interval, interval.estimate.v)
        /\ interval.confidence.some =>
                (FGt(interval.confidence.v, F(0)) /\ FLt(interval.confidence.v, F(1)))

\* C16: on non-empty data (at least 2 values for VarianceTest) the test
\* evaluates exactly n_permutations sign-flip resamples, extreme_count is
\* the number of them at least as extreme as the observed statistic, and
\* p = (extreme_count + 1) / (n_permutations + 1); so 0 <= extreme_count <=
\* n_permutations and 1/(n_permutations + 1) <= p <= 1, never 0.
C16_PValueRange ==
    (test_pc = "done" /\ ~TooShort(test_kind, test_data)) =>
        LET pv == test_ret.value.p_value
        IN  /\ pulls = n_permutations
            /\ yields = n_permutations
            /\ Len(permuted_stats) = n_permutations
            /\ extreme_count =
                 Cardinality({ i \in 1..n_permutations :
                                 FGe(permuted_stats[i], observed) })
            /\ extreme_count \in 0..n_permutations
            /\ pv.den # 0
            /\ pv.num * (n_permutations + 1) = (extreme_count + 1) * pv.den
            /\ pv.num * (n_permutations + 1) >= pv.den
            /\ pv.num <= pv.den
            /\ pv # F(0)

C16_Witness ==
    /\ test_pc = "done"
    /\ test_kind = "VarianceTest"
    /\ Len(test_data) >= 2
    /\ n_permutations = MaxPermutations
    /\ extreme_count = 0
    /\ test_ret.value.p_value = Norm(1, MaxPermutations + 1)

\* the sum of the integers a sequence of floats holds
RECURSIVE IntSum(_)
IntSum(xs) == IF xs = <<>> THEN 0 ELSE Head(xs).num + IntSum(Tail(xs))

\* C17: when the data minus the null mean sum to exactly zero, MeanTest
\* counts every resample as at least as extreme as the observed statistic
\* and reports p = 1, whatever the RNG draws.
C17_SymmetricFailsToReject ==
    (test_pc = "done" /\ test_kind = "MeanTest" /\ Len(test_data) > 0
        /\ IntSum(test_data) = Len(test_data) * null_value.num)
        => /\ extreme_count = n_permutations
           /\ test_ret.value.p_value = F(1)

C17_Witness ==
    /\ test_pc = "done"
    /\ test_kind = "MeanTest"
    /\ test_data = Ints(<<0 - 1, 1, 0 - 2, 2>>)
    /\ null_value = F(0)
    /\ n_permutations = MaxPermutations
    /\ \E i \in 1..Len(permuted_stats) : permuted_stats[i] # F(0)
    /\ test_ret.value.p_value = F(1)

\* C18: an undefined case returns NaN and the call does not fail: Mean on an
\* empty sample, Variance on fewer than 2 values, unbiased Skewness on
\* fewer than 3, unbiased Kurtosis on fewer than 4, a resampling SE on an
\* empty sample or with fewer than 2 resample estimates, and Studentized
\* when the SE is zero or the estimate or the SE is NaN.
C18_UndefinedIsNaN ==
    stat_ret # NotCalled =>
        LET len == Len(stat_data)
            undefined ==
                \/ stat_kind = "Mean" /\ len = 0
                \/ stat_kind = "Variance" /\ len < 2
                \/ stat_kind = "Skewness" /\ estimator.unbiased /\ len < 3
                \/ stat_kind = "Kurtosis" /\ estimator.unbiased /\ len < 4
                \/ stat_kind = "SE" /\ (len = 0 \/ Len(SeEstimates(estimator, stat_data)) < 2)
                \/ /\ stat_kind = "Studentized"
                   /\ \/ SeCompute(estimator, stat_data) \in {F(0), NaN}
                      \/ StatCompute(estimator.statistic, stat_data) = NaN
        IN  undefined => stat_ret = Ok(NaN)

C18_Witness ==
    /\ stat_kind = "Studentized"
    /\ stat_data = <<F(2), F(2)>>
    /\ estimator.statistic = "Mean"
    /\ estimator.resampler = "Jackknife"
    /\ estimator.samples = 2
    /\ SeCompute(estimator, stat_data) = F(0)
    /\ stat_ret = Ok(NaN)

OutputSize ==
    IF scheme = "Jackknife" THEN n - 1
    ELSE IF scheme = "Subsample" THEN subsample_size
    ELSE n

\* C21: after a pull that yielded a resample, the buffer the iterator keeps
\* has the capacity the next resample needs (the next pull allocates
\* nothing), and the yielded resample has the scheme's output size.
C21_BufferReused ==
    ret.kind = "Some" =>
        /\ buffer.cap >= OutputSize
        /\ Len(ret.data) = OutputSize

\* the sample without its i-th value
LeaveOut(d, i) == [j \in 1..(Len(d) - 1) |-> IF j < i THEN d[j] ELSE d[j + 1]]

RECURSIVE SumF(_)
SumF(xs) == IF xs = <<>> THEN F(0) ELSE FAdd(Head(xs), SumF(Tail(xs)))

\* the standard deviation with divisor m - 1
StdDev1(es) ==
    IF Len(es) < 2 THEN NaN
    ELSE LET m == FDiv(SumF(es), F(Len(es)))
             sq == [i \in 1..Len(es) |-> FMul(FSub(es[i], m), FSub(es[i], m))]
         IN  FSqrt(FDiv(SumF(sq), F(Len(es) - 1)))

\* C22: SE::compute evaluates the statistic on exactly min(samples, number
\* of resamples the resampler yields) resamples and returns the ddof = 1
\* standard deviation of those estimates, unscaled; with Jackknife and
\* samples = usize::MAX these are the n leave-one-out resamples.
C22_SeOfEstimates ==
    (stat_kind = "SE" /\ stat_ret # NotCalled) =>
        LET es == SeEstimates(estimator, stat_data)
            jack == estimator.resampler = "Jackknife"
            m == IF jack THEN Min(estimator.samples, Len(stat_data)) ELSE estimator.samples
        IN  /\ Len(es) = m
            /\ jack => \A i \in 1..m :
                         es[i] = StatCompute(estimator.statistic, LeaveOut(stat_data, i))
            /\ (jack /\ estimator.samples = UsizeMax) => Len(es) = Len(stat_data)
            /\ stat_ret = Ok(StdDev1(es))

C22_Witness ==
    /\ stat_kind = "SE"
    /\ estimator.resampler = "Jackknife"
    /\ estimator.samples = UsizeMax
    /\ estimator.statistic = "Mean"
    /\ stat_data = <<F(0), F(2), F(4)>>
    /\ stat_ret = Ok(F(1))

RECURSIVE FPow(_, _)
FPow(x, k) == IF k = 0 THEN F(1) ELSE FMul(x, FPow(x, k - 1))

\* the k-th central moment with divisor n
CentralMoment(d, k) ==
    LET m == FDiv(SumF(d), F(Len(d)))
    IN  FDiv(SumF([i \in 1..Len(d) |-> FPow(FSub(d[i], m), k)]), F(Len(d)))

\* C23: on n >= 4 values with non-zero variance, unbiased Kurtosis is the
\* unbiased FourthCumulant over the square of the ddof = 1 variance, and
\* FourthCumulant is n^2/((n-1)(n-2)(n-3)) * [(n+1) m4 - 3(n-1) m2^2]; on
\* n >= 3 values unbiased ThirdCumulant is n^2/((n-1)(n-2)) * m3, and it is
\* the numerator of unbiased Skewness.
C23_CumulantsFeedShape ==
    (/\ stat_ret # NotCalled
     /\ stat_kind \in {"Skewness", "Kurtosis", "ThirdCumulant", "FourthCumulant"}
     /\ estimator.unbiased) =>
        LET d == stat_data
            len == Len(d)
            v == VarianceCompute(DefaultDdof, d)
            m2 == CentralMoment(d, 2)
            m3 == CentralMoment(d, 3)
            m4 == CentralMoment(d, 4)
            sd3 == Powi3(FSqrt(v))
        IN  /\ (stat_kind = "Kurtosis" /\ len >= 4 /\ v \notin {F(0), NaN}) =>
                  stat_ret.value = FDiv(FourthCumulantCompute(TRUE, d), FMul(v, v))
            /\ (stat_kind = "FourthCumulant" /\ len >= 4) =>
                  stat_ret.value =
                      FMul(Norm(len * len, (len - 1) * (len - 2) * (len - 3)),
                           FSub(FMul(F(len + 1), m4),
                                FMul(F(3 * (len - 1)), FMul(m2, m2))))
            /\ (stat_kind = "ThirdCumulant" /\ len >= 3) =>
                  stat_ret.value = FMul(Norm(len * len, (len - 1) * (len - 2)), m3)
            /\ (stat_kind = "Skewness" /\ len >= 3 /\ sd3 \notin {F(0), NaN}) =>
                  stat_ret.value = FDiv(ThirdCumulantCompute(TRUE, d), sd3)

\* the reads the next pull of the Flipper iterator makes from this state
NextReads == FlipReads(bits_consumed, n)

\* a pull of the Flipper iterator flips element i by the bit its read names,
\* and leaves bits_consumed where the reads end
FlipsFollowReads ==
    (scheme = "Flipper" /\ n >= 1 /\ pulls' = pulls + 1) =>
        LET fr == NextReads
            word(k) == IF fr.reads[k].word = 0 THEN bit_reservoir ELSE bit_reservoir'
        IN  /\ bits_consumed' = fr.bc
            /\ fr.word <= 1 => \A k \in 1..n :
                  ret'.data[k] = SignBitFlip(data[k], TestBit(word(k), fr.reads[k].bit))

\* C24 as stated: the reservoir word is replaced only when all 64 of its
\* bits have been consumed.
C24_RefillOnlyWhenExhausted ==
    (scheme = "Flipper" /\ pulls < PullCap) =>
        \A k \in 1..Len(NextReads.reads) :
            NextReads.reads[k].refilled => NextReads.reads[k].before = WordBits

\* C24 (amended): every element consumes exactly one bit, the next one of
\* the current word; the remainder loop replaces the word only when all 64
\* bits are consumed, the 8-way loop as soon as fewer than 8 bits are left,
\* which discards at most 7 bits.
C24_RefillRule ==
    /\ [](scheme = "Flipper" =>
            LET rs == NextReads.reads IN
            /\ Len(rs) = n
            /\ \A k \in 1..Len(rs) :
                 /\ rs[k].bit = IF rs[k].refilled THEN 0
                                ELSE IF k = 1 THEN bits_consumed
                                ELSE rs[k - 1].bit + 1
                 /\ rs[k].refilled =>
                       IF rs[k].unrolled
                       THEN rs[k].before > WordBits - 8 /\ WordBits - rs[k].before <= 7
                       ELSE rs[k].before = WordBits)
    /\ [][FlipsFollowReads]_vars

C24_Witness ==
    /\ scheme = "Flipper"
    /\ n = 9
    /\ pulls = 8
    /\ bits_consumed = 9
    /\ ret.kind = "Some"

\* C29: bits_consumed stays within 0..64 after every step of every pull,
\* every read shifts the reservoir by fewer than 64 positions, and no bit
\* position of a word decides more than one flip before the word is
\* replaced, within a resample or across consecutive resamples.
C29_BitCounterAndNoReuse ==
    /\ [](scheme = "Flipper" =>
            LET fr == NextReads
                rs == fr.reads
            IN  /\ bits_consumed \in 0..WordBits
                /\ \A k \in 1..Len(rs) :
                     /\ rs[k].after \in 0..WordBits
                     /\ rs[k].shift < WordBits
                     /\ rs[k].bit < WordBits
                     /\ rs[k].word = 0 => rs[k].bit >= bits_consumed
                     /\ rs[k].word = fr.word => rs[k].bit < fr.bc
                     /\ \A l \in 1..Len(rs) :
                          (l # k /\ rs[l].word = rs[k].word) => rs[l].bit # rs[k].bit)
    /\ [][FlipsFollowReads /\ bits_consumed' \in 0..WordBits]_vars

C29_Witness ==
    /\ scheme = "Flipper"
    /\ n = 9
    /\ pulls = 2
    /\ bits_consumed = 18
    /\ ret.kind = "Some"

\* the discrete p-quantile of the values ts: the smallest of them that at
\* least n*p (and at least one) of them do not exceed
DiscreteQuantile(ts, p) ==
    LET idx == 1..Len(ts)
        enough(v) ==
            LET c == Cardinality({ i \in idx : FLe(ts[i], v) })
            IN  c >= 1 /\ FGe(F(c), FMul(F(Len(ts)), p))
    IN  CHOOSE v \in { ts[i] : i \in idx } :
            /\ enough(v)
            /\ \A i \in idx : FLt(ts[i], v) => ~enough(ts[i])

\* C25: a non-NaN interval returned by StudentizedBootstrap::compute has
\* lower = estimate - t_hi * SE and upper = estimate - t_lo * SE, with t_lo
\* and t_hi the discrete alpha/2 and 1 - alpha/2 quantiles of the retained
\* pivots and SE > 0 the standard error of the original sample; t_lo <= t_hi
\* and lower <= upper.
C25_PivotsMapToBounds ==
    (/\ sb_ret.kind = "Ok"
     /\ ~is_nan(sb_ret.value.lower)
     /\ ~is_nan(sb_ret.value.upper)) =>
        LET alpha == FSub(F(1), confidence)
            t_lo == DiscreteQuantile(t_star, FDiv(alpha, F(2)))
            t_hi == DiscreteQuantile(t_star, FSub(F(1), FDiv(alpha, F(2))))
        IN  /\ FGt(se_theta_hat, F(0))
            /\ sb_ret.value.lower = FSub(theta_hat, FMul(t_hi, se_theta_hat))
            /\ sb_ret.value.upper = FSub(theta_hat, FMul(t_lo, se_theta_hat))
            /\ FLe(t_lo, t_hi)
            /\ FLe(sb_ret.value.lower, sb_ret.value.upper)

C25_Witness ==
    /\ sb_ret.kind = "Ok"
    /\ Len(t_star) = 3
    /\ se_theta_hat = F(2)
    /\ FLt(sb_ret.value.lower, sb_ret.value.upper)

\* C26: in the partial Fisher-Yates branch of without-replacement Subsample
\* the loop runs over the last k slots, and the k values yielded are the
\* contents of those slots (buffer indices n-k .. n-1) after the loop.
C26_LastSlotsYielded ==
    (/\ scheme = "Subsample"
     /\ mode = "WithoutReplacement"
     /\ ret.kind = "Some"
     /\ subsample_size >= 1
     /\ ~UseReservoir(subsample_size, n)) =>
        LET k == subsample_size
        IN  \A r \in WithoutReplacementRuns(WithCapacity(k), data, k) :
                WithoutReplacementYield(r[1], k, n) = [i \in 1..k |-> r[1][n - k + i]]

\* the orderings of the positions 0..len-1
PositionOrders(len) ==
    { q \in [1..len -> 0..(len - 1)] : \A a, b \in 1..len : q[a] = q[b] => a = b }

\* C27: Shuffle runs Fisher-Yates from index n-1 down to 1 with j drawn from
\* [0, i] at step i; distinct draw sequences give distinct orderings, and
\* together they give every one of the n! permutations of the positions.
C27_ShuffleBijection ==
    (scheme = "Shuffle" /\ ret.kind = "Some") =>
        LET out(e, J) == IF n > 1 THEN FisherYates(e, n - 1, J) ELSE e
            draws == ShuffleDraws(n)
        IN  /\ \A J \in draws : \A i \in 1..(n - 1) : J[i] \in 0..i
            /\ \A J1, J2 \in draws :
                 out(Positions(n), J1) = out(Positions(n), J2) => J1 = J2
            /\ { out(Positions(n), J) : J \in draws } = PositionOrders(n)
            /\ \E J \in draws : ret.data = out(data, J)

C27_Witness ==
    /\ scheme = "Shuffle"
    /\ n = 3
    /\ ret.kind = "Some"
    /\ ret.data = <<data[3], data[1], data[2]>>
    /\ ret.data # data

\* the unchecked operations of the next pull on the iterator
NextOps ==
    IF scheme = "Jackknife" THEN JackknifeOps(buffer, n, omit_idx)
    ELSE IF scheme = "Bootstrap" THEN BootstrapOps(buffer, n)
    ELSE IF scheme = "Shuffle" THEN ShuffleOps(buffer, n)
    ELSE IF scheme = "Flipper" THEN FlipperOps(buffer, n)
    ELSE SubsampleOps(buffer, n, subsample_size, mode)

\* C28: in every iterator, for every n and after any sequence of pulls, the
\* buffer's length is only set to a value within its capacity, every raw
\* read index is below the length of what is read, and every raw write
\* index is below the length the buffer was just given.
C28_UncheckedOpsInBounds ==
    scheme \in Schemes =>
        \A o \in NextOps :
            /\ o.at >= 0
            /\ IF o.kind = "set_len" THEN o.at <= o.limit ELSE o.at < o.limit

C28_Witness ==
    /\ scheme = "Subsample"
    /\ mode = "WithoutReplacement"
    /\ pulls = 1
    /\ buffer = VecNew
    /\ n = 3
    /\ subsample_size = 1
    /\ SetLenOp(3, 3) \in NextOps
    /\ WriteOp(2, 3) \in NextOps

\* C30: for every sample of n >= 2 values and every ddof Variance::new
\* accepts, the divisor n - ddof is formed without the unsigned subtraction
\* wrapping or aborting, and the call returns a value.
C30_DivisorNeverUnderflows ==
    (stat_kind = "Variance" /\ stat_ret # NotCalled /\ Len(stat_data) >= 2) =>
        /\ stat_ret.kind = "Ok"
        /\ estimator.ddof <= Len(stat_data)
        /\ stat_ret.value = VarianceCompute(estimator.ddof, stat_data)

====
